---------------------------- MODULE Spec2Model ----------------------------
(***************************************************************************)
(* Model of the Pech OSD request path (src/src/ceph/osd_server.c): the     *)
(* in-memory object store (objects, 64k blocks), the three op handlers     *)
(* WRITE / READ / STAT, the per-request op loop with its FAILOK policy,    *)
(* and the reply built from the ops.                                       *)
(*                                                                         *)
(* Memory is modelled byte-exactly but stored run-length encoded: a        *)
(* buffer is a sequence of runs <<n, v>> (n > 0 bytes of value v), always  *)
(* kept canonical (no empty run, no two neighbouring runs of one value),   *)
(* so that two buffers are equal iff they hold the same bytes.             *)
(***************************************************************************)
EXTENDS Integers, Sequences, FiniteSets, TLC

(***************************************************************************)
(* Program constants.                                                      *)
(***************************************************************************)
OSDS_BLOCK_SHIFT == 16
OSDS_BLOCK_SIZE  == 2 ^ OSDS_BLOCK_SHIFT
NOOP_WRITE_MIN   == 4096
STAT_TS_SIZE     == 8
ENOENT      == 2
ENOMEM      == 12
EAGAIN      == 11
EINPROGRESS == 115
EOPNOTSUPP  == 95

\* x reduced to 32 bits (written without the literal 2^32)
U32(x) == (x % 65536) + 65536 * ((x \div 65536) % 65536)
Min(a, b) == IF a < b THEN a ELSE b
Max(a, b) == IF a > b THEN a ELSE b

\* faulty variant of ALIGN_DOWN: the offset is used as it is
ALIGN_DOWN_none(x, a) == x

\* ALIGN_DOWN(x, a) for a power of two a
ALIGN_DOWN(x, a) == x - (x % a)
\* (off & ~OSDS_BLOCK_MASK): the offset inside the block
OffInBlock(off) == off % OSDS_BLOCK_SIZE

(***************************************************************************)
(* Bytes in memory, run-length encoded.                                    *)
(***************************************************************************)
RECURSIVE BufLen(_)
BufLen(b) == IF b = <<>> THEN 0 ELSE b[1][1] + BufLen(Tail(b))

BufFill(n, v) == IF n <= 0 THEN <<>> ELSE << <<n, v>> >>

BufCat(a, b) ==
    IF a = <<>> THEN b
    ELSE IF b = <<>> THEN a
    ELSE IF a[Len(a)][2] = b[1][2]
         THEN SubSeq(a, 1, Len(a) - 1)
              \o << <<a[Len(a)][1] + b[1][1], b[1][2]>> >>
              \o Tail(b)
         ELSE a \o b

RECURSIVE BufTake(_, _)
BufTake(b, n) ==
    IF n <= 0 \/ b = <<>> THEN <<>>
    ELSE IF b[1][1] <= n THEN <<b[1]>> \o BufTake(Tail(b), n - b[1][1])
    ELSE << <<n, b[1][2]>> >>

RECURSIVE BufDrop(_, _)
BufDrop(b, n) ==
    IF n <= 0 \/ b = <<>> THEN b
    ELSE IF b[1][1] <= n THEN BufDrop(Tail(b), n - b[1][1])
    ELSE << <<b[1][1] - n, b[1][2]>> >> \o Tail(b)

BufSlice(b, off, n) == BufTake(BufDrop(b, off), n)

\* memcpy(dst + off, src, len(src)) inside a buffer dst that is long enough
BufPoke(dst, off, src) ==
    IF src = <<>> THEN dst
    ELSE BufCat(BufCat(BufTake(dst, off), src),
                BufDrop(dst, off + BufLen(src)))

\* n bytes of v, little-endian, as memory
RECURSIVE LeBytes(_, _)
LeBytes(v, n) ==
    IF n = 0 THEN <<>>
    ELSE BufCat(BufFill(1, v % 256), LeBytes(v \div 256, n - 1))


(***************************************************************************)
(* Allocation.  Every handler returns at its first failed allocation, so   *)
(* the environment of one op execution is the number oom of the            *)
(* allocation call (counted from 1 inside that op) that fails; 0 = none.   *)
(***************************************************************************)
AllocFails(nalloc, oom) == oom # 0 /\ nalloc + 1 = oom

(***************************************************************************)
(* The block map of an object: the rb-tree o_blocks in key order, i.e. a   *)
(* sequence of blocks [b_off, b_page] sorted by b_off.  Index 0 is NULL.   *)
(***************************************************************************)
lookup_object_block_by_off(blocks, off) ==
    IF \E i \in DOMAIN blocks : blocks[i].b_off = off
    THEN CHOOSE i \in DOMAIN blocks :
            /\ blocks[i].b_off = off
            /\ \A j \in DOMAIN blocks : blocks[j].b_off = off => i <= j
    ELSE 0

\* the position the rb-tree insert gives a block of key off
InsertPos(blocks, off) ==
    Cardinality({i \in DOMAIN blocks : blocks[i].b_off < off}) + 1

insert_object_block_by_off(blocks, blk) ==
    LET k == InsertPos(blocks, blk.b_off)
    IN  SubSeq(blocks, 1, k - 1) \o <<blk>> \o SubSeq(blocks, k, Len(blocks))

\* the block of the smallest key >= off, or NULL
lookup_right_block(blocks, off) ==
    IF \E i \in DOMAIN blocks : blocks[i].b_off >= off
    THEN CHOOSE i \in DOMAIN blocks :
            /\ blocks[i].b_off >= off
            /\ \A j \in DOMAIN blocks : blocks[j].b_off >= off => i <= j
    ELSE 0

rb_next(blocks, i) == IF i < Len(blocks) THEN i + 1 ELSE 0

(***************************************************************************)
(* next_dst: the block that holds dst_off, allocated (zeroed) on demand.   *)
(***************************************************************************)
\* faulty variant of next_dst: the page of a new block is not zeroed
next_dst_dirty(blocks, dst_off, nalloc, oom) ==
    LET blk_off == ALIGN_DOWN(dst_off, OSDS_BLOCK_SIZE)
        found   == lookup_object_block_by_off(blocks, blk_off)
        dst_len == OSDS_BLOCK_SIZE - OffInBlock(dst_off)
    IN  IF found # 0
        THEN [ret |-> 0, blocks |-> blocks, blk |-> found,
              dst_len |-> dst_len, nalloc |-> nalloc]
        ELSE IF AllocFails(nalloc, oom)
        THEN [ret |-> -ENOMEM, blocks |-> blocks, blk |-> 0,
              dst_len |-> 0, nalloc |-> nalloc + 1]
        ELSE IF AllocFails(nalloc + 1, oom)
        THEN [ret |-> -ENOMEM, blocks |-> blocks, blk |-> 0,
              dst_len |-> 0, nalloc |-> nalloc + 2]
        ELSE LET blk == [b_off  |-> blk_off,
                         b_page |-> BufFill(OSDS_BLOCK_SIZE, 85)]
                 ins == insert_object_block_by_off(blocks, blk)
             IN  [ret |-> 0, blocks |-> ins,
                  blk |-> lookup_object_block_by_off(ins, blk_off),
                  dst_len |-> dst_len, nalloc |-> nalloc + 2]

next_dst(blocks, dst_off, nalloc, oom) ==
    LET blk_off == ALIGN_DOWN(dst_off, OSDS_BLOCK_SIZE)
        found   == lookup_object_block_by_off(blocks, blk_off)
        dst_len == OSDS_BLOCK_SIZE - OffInBlock(dst_off)
    IN  IF found # 0
        THEN [ret |-> 0, blocks |-> blocks, blk |-> found,
              dst_len |-> dst_len, nalloc |-> nalloc]
        ELSE IF AllocFails(nalloc, oom)            \* kmalloc(sizeof(*blk))
        THEN [ret |-> -ENOMEM, blocks |-> blocks, blk |-> 0,
              dst_len |-> 0, nalloc |-> nalloc + 1]
        ELSE IF AllocFails(nalloc + 1, oom)        \* alloc_pages(__GFP_ZERO)
        THEN [ret |-> -ENOMEM, blocks |-> blocks, blk |-> 0,
              dst_len |-> 0, nalloc |-> nalloc + 2]
        ELSE LET blk == [b_off  |-> blk_off,
                         b_page |-> BufFill(OSDS_BLOCK_SIZE, 0)]
                 ins == insert_object_block_by_off(blocks, blk)
             IN  [ret |-> 0, blocks |-> ins,
                  blk |-> lookup_object_block_by_off(ins, blk_off),
                  dst_len |-> dst_len, nalloc |-> nalloc + 2]

(***************************************************************************)
(* The input cursor of a request: the message data and the number of       *)
(* bytes consumed so far.  ceph_msg_data_cursor_next() points the cursor's *)
(* iov_iter at what is left, so iov_iter_count() is the remaining length.  *)
(***************************************************************************)
ceph_msg_data_cursor_init(data) == [data |-> data, pos |-> 0]

iov_iter_count(cur) == BufLen(cur.data) - cur.pos

\* copy_from_iter(dst, len, &in_cur->iter): the next len bytes of the data
copy_from_iter(cur, len) == BufSlice(cur.data, cur.pos, len)

ceph_msg_data_cursor_advance(cur, len) == [cur EXCEPT !.pos = @ + len]

(***************************************************************************)
(* The copy loop of handle_osd_op_write.  ws holds the locals of the       *)
(* function.  When the cursor is empty while len_write > 0 an iteration    *)
(* copies len = 0 bytes and changes nothing, so the loop never ends: this  *)
(* is reported as ws.spin.                                                 *)
(***************************************************************************)
RECURSIVE write_loop(_, _)

\* the end of one iteration: nx holds the locals after the copy of len bytes
write_loop_end(nx, len, oom) ==
    IF len = 0 THEN [nx EXCEPT !.spin = TRUE] ELSE write_loop(nx, oom)

\* faulty variant of write_loop_copy: the cursor is not advanced
write_loop_copy_stay(ws, nd, len, oom) ==
    write_loop_end(
        [ws EXCEPT
           !.blocks    = [nd.blocks EXCEPT ![nd.blk].b_page =
                            BufPoke(@, OffInBlock(ws.dst_off),
                                    copy_from_iter(ws.cur, len))],
           !.blk       = nd.blk,
           !.nalloc    = nd.nalloc,
           !.len_write = @ - len,
           !.dst_len   = nd.dst_len - len,
           !.dst_off   = @ + len,
           !.modified  = TRUE],
        len, oom)

\* the copy of len bytes from the cursor into the block nd.blk
write_loop_copy(ws, nd, len, oom) ==
    write_loop_end(
        [ws EXCEPT
           !.blocks    = [nd.blocks EXCEPT ![nd.blk].b_page =
                            BufPoke(@, OffInBlock(ws.dst_off),
                                    copy_from_iter(ws.cur, len))],
           !.blk       = nd.blk,
           !.nalloc    = nd.nalloc,
           !.cur       = ceph_msg_data_cursor_advance(@, len),
           !.len_write = @ - len,
           !.dst_len   = nd.dst_len - len,
           !.dst_off   = @ + len,
           !.modified  = TRUE],
        len, oom)

\* one iteration, nd being the result of next_dst (or the block in use)
write_loop_iter(ws, nd, oom) ==
    IF nd.ret # 0
    THEN [ws EXCEPT !.ret = nd.ret, !.nalloc = nd.nalloc]
    ELSE write_loop_copy(ws, nd,
                         Min(Min(iov_iter_count(ws.cur), nd.dst_len),
                             ws.len_write),
                         oom)

write_loop(ws, oom) ==
    IF ws.len_write = 0 THEN ws
    ELSE write_loop_iter(ws,
            IF ws.dst_len = 0
            THEN next_dst(ws.blocks, ws.dst_off, ws.nalloc, oom)
            ELSE [ret |-> 0, blocks |-> ws.blocks, blk |-> ws.blk,
                  dst_len |-> ws.dst_len, nalloc |-> ws.nalloc],
            oom)

(***************************************************************************)
(* handle_osd_op_write.  garbage is the byte the uninitialised memory of   *)
(* a fresh kmalloc happens to hold (o_mtime is not set at creation).       *)
(* Result: ret, the object table, the cursor, and spin.                    *)
(***************************************************************************)
\* a timespec whose memory holds the byte g throughout (the low 32 bits of
\* each field, all that the server ever reads of it)
GarbageTime(g) == <<g * 16843009, g * 16843009>>

NewObject(g) == [o_size |-> 0, o_blocks |-> <<>>, o_mtime |-> GarbageTime(g)]

\* faulty variant of WriteSkipped: under the option a write of any length
\* is skipped
WriteSkipped_anyLength(op, noop) ==
    \/ op.length = 0
    \/ noop

\* the two early returns of handle_osd_op_write
WriteSkipped(op, noop) ==
    \/ op.length = 0
    \/ noop /\ op.length >= NOOP_WRITE_MIN

\* faulty variant of WriteFinish: the size is set to the end of this write
\* even when the object already reaches further
WriteFinish_noMax(obj, ws, mtime) ==
    LET o1 == [obj EXCEPT !.o_blocks = ws.blocks]
    IN  IF ws.modified /\ ~ws.spin
        THEN [o1 EXCEPT !.o_mtime = mtime, !.o_size = ws.dst_off]
        ELSE o1

\* faulty variant of WriteFinish: the mtime of the request is not stored
WriteFinish_noMtime(obj, ws, mtime) ==
    LET o1 == [obj EXCEPT !.o_blocks = ws.blocks]
    IN  IF ws.modified /\ ~ws.spin
        THEN [o1 EXCEPT !.o_size = IF ws.dst_off > @ THEN ws.dst_off ELSE @]
        ELSE o1

\* timestamp a is earlier than timestamp b (seconds, then nanoseconds)
TimeBefore(a, b) == a[1] < b[1] \/ (a[1] = b[1] /\ a[2] < b[2])

\* faulty variant of WriteFinish: the mtime only ever moves forward, an
\* earlier mtime of a request is dropped
WriteFinish_laterMtime(obj, ws, mtime) ==
    LET o1 == [obj EXCEPT !.o_blocks = ws.blocks]
    IN  IF ws.modified /\ ~ws.spin
        THEN [o1 EXCEPT !.o_mtime = IF TimeBefore(mtime, @) THEN @ ELSE mtime,
                        !.o_size  = IF ws.dst_off > @ THEN ws.dst_off ELSE @]
        ELSE o1

\* faulty variant of WriteFinish: size and mtime are set only when the write
\* succeeded
WriteFinish_onSuccess(obj, ws, mtime) ==
    LET o1 == [obj EXCEPT !.o_blocks = ws.blocks]
    IN  IF ws.modified /\ ~ws.spin /\ ws.ret = 0
        THEN [o1 EXCEPT !.o_mtime = mtime,
                        !.o_size  = IF ws.dst_off > @ THEN ws.dst_off ELSE @]
        ELSE o1

\* the out: label of handle_osd_op_write
WriteFinish(obj, ws, mtime) ==
    LET o1 == [obj EXCEPT !.o_blocks = ws.blocks]
    IN  IF ws.modified /\ ~ws.spin
        THEN [o1 EXCEPT !.o_mtime = mtime,
                        !.o_size  = IF ws.dst_off > @ THEN ws.dst_off ELSE @]
        ELSE o1

\* what the function leaves: ret, the table with the object as the loop and
\* the out: label left it, the cursor
WriteResult(objs, hoid, mtime, obj, ws) ==
    [ret  |-> ws.ret,
     objs |-> [h \in DOMAIN objs \cup {hoid} |->
                  IF h = hoid THEN WriteFinish(obj, ws, mtime) ELSE objs[h]],
     cur  |-> ws.cur,
     spin |-> ws.spin]

\* the function from the copy loop on, obj being the object found or created
WriteObject(objs, hoid, mtime, op, cur, oom, fresh, obj) ==
    WriteResult(objs, hoid, mtime, obj,
                write_loop([blocks    |-> obj.o_blocks,
                            len_write |-> op.length,
                            dst_off   |-> op.offset,
                            blk       |-> 0,
                            dst_len   |-> 0,
                            ret       |-> 0,
                            modified  |-> FALSE,
                            spin      |-> FALSE,
                            cur       |-> cur,
                            nalloc    |-> IF fresh THEN 1 ELSE 0], oom))

handle_osd_op_write(objs, hoid, mtime, op, cur, noop, oom, garbage) ==
    IF WriteSkipped(op, noop)
    THEN [ret |-> 0, objs |-> objs, cur |-> cur, spin |-> FALSE]
    ELSE IF hoid \notin DOMAIN objs /\ AllocFails(0, oom)  \* kmalloc(*obj)
    THEN [ret |-> -ENOMEM, objs |-> objs, cur |-> cur, spin |-> FALSE]
    ELSE WriteObject(objs, hoid, mtime, op, cur, oom,
                     hoid \notin DOMAIN objs,
                     IF hoid \notin DOMAIN objs
                     THEN NewObject(garbage) ELSE objs[hoid])

(***************************************************************************)
(* alloc_bvec: a page chunk (alloc_pages without __GFP_ZERO) and a bio_vec *)
(* (kmalloc); the data_len bytes of the chunk are uninitialised.           *)
(***************************************************************************)
alloc_bvec(data_len, nalloc, oom, garbage) ==
    IF AllocFails(nalloc, oom) \/ AllocFails(nalloc + 1, oom)
    THEN [ret |-> -ENOMEM, page |-> <<>>]
    ELSE [ret |-> 0, page |-> BufFill(data_len, garbage)]

(***************************************************************************)
(* The block loop of handle_osd_op_read.  rs holds the locals: the out     *)
(* page, off, off_inpg, len_read and blk (an index into blocks, 0 = NULL). *)
(***************************************************************************)
\* faulty variant of ReadHole: the hole is skipped but not zeroed
ReadHole_nofill(blocks, rs) ==
    IF blocks[rs.blk].b_off > rs.off
    THEN LET len_zero == Min(blocks[rs.blk].b_off - rs.off, rs.len_read)
         IN  [rs EXCEPT !.len_read = @ - len_zero,
                        !.off_inpg = @ + len_zero,
                        !.off      = @ + len_zero]
    ELSE rs

ReadHole(blocks, rs) ==
    IF blocks[rs.blk].b_off > rs.off
    THEN LET len_zero == Min(blocks[rs.blk].b_off - rs.off, rs.len_read)
         IN  [rs EXCEPT !.page     = BufPoke(@, rs.off_inpg,
                                             BufFill(len_zero, 0)),
                        !.len_read = @ - len_zero,
                        !.off_inpg = @ + len_zero,
                        !.off      = @ + len_zero]
    ELSE rs

ReadCopy(blocks, rs) ==
    IF rs.len_read # 0
    THEN LET off_inblk == OffInBlock(rs.off)
             len_copy  == Min(OSDS_BLOCK_SIZE - off_inblk, rs.len_read)
         IN  [rs EXCEPT !.page     = BufPoke(@, rs.off_inpg,
                                        BufSlice(blocks[rs.blk].b_page,
                                                 off_inblk, len_copy)),
                        !.len_read = @ - len_copy,
                        !.off_inpg = @ + len_copy,
                        !.off      = @ + len_copy]
    ELSE rs

ReadNext(blocks, rs) ==
    IF rs.len_read # 0
    THEN [rs EXCEPT !.blk = rb_next(blocks, @)]
    ELSE rs

RECURSIVE read_loop(_, _, _)
read_loop(blocks, blk_off, rs) ==
    IF rs.blk = 0 \/ rs.len_read = 0 THEN rs
    ELSE IF blocks[rs.blk].b_off < blk_off        \* BUG_ON
    THEN [rs EXCEPT !.bug = TRUE]
    ELSE read_loop(blocks, blk_off,
                   ReadNext(blocks, ReadCopy(blocks, ReadHole(blocks, rs))))

ReadTail(rs) ==
    IF rs.len_read # 0 /\ ~rs.bug
    THEN [rs EXCEPT !.page = BufPoke(@, rs.off_inpg, BufFill(rs.len_read, 0))]
    ELSE rs

\* faulty variant of PastEof: a read that starts at the size goes on
PastEof_strict(obj, op) == op.offset > obj.o_size

\* if (off >= obj->o_size): nothing to read
PastEof(obj, op) == op.offset >= obj.o_size

\* faulty variant of ReadLen: the length is not clamped to the object size
ReadLen_unclamped(obj, op) == op.length

\* min(op->extent.length, obj->o_size - op->extent.offset)
ReadLen(obj, op) == Min(op.length, obj.o_size - op.offset)

(***************************************************************************)
(* handle_osd_op_read.  Result: ret, the op with its out-data, and bug     *)
(* (the BUG_ON of the loop fired).                                         *)
(***************************************************************************)
\* what the function leaves: the out-data set on the op, rs the locals after
\* the loop and the tail fill
ReadResult(op, len_read, rs) ==
    [ret |-> 0,
     op  |-> [op EXCEPT !.outdata_len = U32(len_read),
                        !.has_outdata = TRUE,
                        !.outdata     = rs.page],
     bug |-> rs.bug]

\* the function once len_read is known: it is the result of alloc_bvec
ReadObject(obj, op, len_read, it) ==
    IF it.ret # 0
    THEN [ret |-> it.ret, op |-> op, bug |-> FALSE]
    ELSE ReadResult(op, len_read,
            ReadTail(read_loop(obj.o_blocks,
                        ALIGN_DOWN(op.offset, OSDS_BLOCK_SIZE),
                        [page     |-> it.page,
                         off      |-> op.offset,
                         off_inpg |-> 0,
                         len_read |-> len_read,
                         blk      |-> lookup_right_block(obj.o_blocks,
                                        ALIGN_DOWN(op.offset,
                                                   OSDS_BLOCK_SIZE)),
                         bug      |-> FALSE])))

handle_osd_op_read(objs, hoid, op, oom, garbage) ==
    IF hoid \notin DOMAIN objs
    THEN [ret |-> -ENOENT, op |-> op, bug |-> FALSE]
    ELSE IF PastEof(objs[hoid], op)
    THEN [ret |-> 0, op |-> op, bug |-> FALSE]
    ELSE ReadObject(objs[hoid], op, ReadLen(objs[hoid], op),
                    alloc_bvec(ReadLen(objs[hoid], op), 0, oom, garbage))

(***************************************************************************)
(* handle_osd_op_stat.  The out page p is uninitialised.                   *)
(*   ceph_encode_64(p, obj->o_size) is handed the page address itself      *)
(* where the encoder takes the address of a position pointer: it stores    *)
(* the size at the address found in the first 8 bytes of the page and adds *)
(* 8 to those bytes.  The store through that wild address either faults    *)
(* (wild = "fault": the process dies), lands outside the model             *)
(* (wild = "stray"), or lands in the store (wild = "hit": the page is      *)
(* memory used before, and what it held is the address of the page of a    *)
(* block of the object).  ceph_encode_copy(&p, &ts, sizeof(ts)) then copies    *)
(* the timestamp to the start of the page.                                 *)
(***************************************************************************)
\* ceph_encode_timespec64: u32 seconds, u32 nanoseconds, little-endian
ceph_encode_timespec64(mtime) ==
    BufCat(LeBytes(U32(mtime[1]), 4), LeBytes(U32(mtime[2]), 4))

StatPage(obj, page) ==
    BufPoke(page, 0, ceph_encode_timespec64(obj.o_mtime))

\* the store after ceph_encode_64(p, obj->o_size) of a STAT that got as far:
\* with wild = "hit" the 8 bytes of the size are in the first block of the
\* object
encode_64_stray(objs, hoid, oom, garbage, wild) ==
    IF /\ wild = "hit"
       /\ garbage # 0
       /\ hoid \in DOMAIN objs
       /\ alloc_bvec(8 + STAT_TS_SIZE, 0, oom, garbage).ret = 0
       /\ objs[hoid].o_blocks # <<>>
    THEN [objs EXCEPT ![hoid].o_blocks[1].b_page =
             BufPoke(@, 0, LeBytes(objs[hoid].o_size, 8))]
    ELSE objs

\* faulty variant of handle_osd_op_stat: the object is looked up only after
\* the out buffer was attached to the op
handle_osd_op_stat_late(objs, hoid, op, oom, garbage, wild) ==
    LET outdata_len == 8 + STAT_TS_SIZE
        it          == alloc_bvec(outdata_len, 0, oom, garbage)
        out         == [op EXCEPT !.outdata_len = outdata_len,
                                  !.has_outdata = TRUE,
                                  !.outdata     = it.page]
    IN  IF it.ret # 0
        THEN [ret |-> it.ret, op |-> op, bug |-> FALSE]
        ELSE IF hoid \notin DOMAIN objs
        THEN [ret |-> -ENOENT, op |-> out, bug |-> FALSE]
        ELSE [ret |-> 0,
              op  |-> [out EXCEPT !.outdata = StatPage(objs[hoid], it.page)],
              bug |-> (wild = "fault")]

handle_osd_op_stat(objs, hoid, op, oom, garbage, wild) ==
    IF hoid \notin DOMAIN objs
    THEN [ret |-> -ENOENT, op |-> op, bug |-> FALSE]
    ELSE
      LET outdata_len == 8 + STAT_TS_SIZE
          it          == alloc_bvec(outdata_len, 0, oom, garbage)
      IN  IF it.ret # 0
          THEN [ret |-> it.ret, op |-> op, bug |-> FALSE]
          ELSE [ret |-> 0,
                op  |-> [op EXCEPT !.outdata_len = outdata_len,
                                   !.has_outdata = TRUE,
                                   !.outdata     = StatPage(objs[hoid],
                                                            it.page)],
                bug |-> (wild = "fault")]

(***************************************************************************)
(* handle_osd_op: dispatch on the opcode and record the result in rval.    *)
(* Result: ret, objs, cur, op, and how the call ended ("ret": returned,    *)
(* "spin": stuck in the write loop, "bug": the process died).              *)
(***************************************************************************)
OpResult(ret, objs, cur, op, end) ==
    [ret  |-> ret, objs |-> objs, cur |-> cur,
     op   |-> IF end = "ret" THEN [op EXCEPT !.rval = ret] ELSE op,
     end  |-> end]

\* w: the result of handle_osd_op_write
WriteOpResult(w, op) ==
    OpResult(w.ret, w.objs, w.cur, op, IF w.spin THEN "spin" ELSE "ret")

\* r: the result of handle_osd_op_read or handle_osd_op_stat
OutOpResult(r, objs, cur) ==
    OpResult(r.ret, objs, cur, r.op, IF r.bug THEN "bug" ELSE "ret")

\* faulty variant of handle_osd_op: an opcode without a case is ignored
handle_osd_op_ignore(objs, hoid, mtime, op, cur, noop, oom, garbage, wild) ==
    CASE op.op = "WRITE" ->
           WriteOpResult(handle_osd_op_write(objs, hoid, mtime, op, cur,
                                             noop, oom, garbage), op)
      [] op.op = "READ" ->
           OutOpResult(handle_osd_op_read(objs, hoid, op, oom, garbage),
                       objs, cur)
      [] op.op = "STAT" ->
           OutOpResult(handle_osd_op_stat(objs, hoid, op, oom, garbage, wild),
                       encode_64_stray(objs, hoid, oom, garbage, wild), cur)
      [] OTHER -> OpResult(0, objs, cur, op, "ret")

handle_osd_op(objs, hoid, mtime, op, cur, noop, oom, garbage, wild) ==
    CASE op.op = "WRITE" ->
           WriteOpResult(handle_osd_op_write(objs, hoid, mtime, op, cur,
                                             noop, oom, garbage), op)
      [] op.op = "READ" ->
           OutOpResult(handle_osd_op_read(objs, hoid, op, oom, garbage),
                       objs, cur)
      [] op.op = "STAT" ->
           OutOpResult(handle_osd_op_stat(objs, hoid, op, oom, garbage, wild),
                       encode_64_stray(objs, hoid, oom, garbage, wild), cur)
      [] OTHER -> OpResult(-EOPNOTSUPP, objs, cur, op, "ret")

(***************************************************************************)
(* Requests.  A decoded op is what osd_req_decode_op leaves in req->ops[i] *)
(* after init_msg_osd_op zeroed the array: opcode, flags, indata_len       *)
(* (payload_len on the wire) and the extent; rval, outdata_len and outdata *)
(* are still zero.                                                         *)
(***************************************************************************)
DecodedOp(opc, flags, off, len, inlen) ==
    [op |-> opc, flags |-> flags, offset |-> off, length |-> len,
     indata_len |-> inlen,
     rval |-> 0, outdata_len |-> 0, has_outdata |-> FALSE, outdata |-> <<>>]

(***************************************************************************)
(* The front of an OSD_OP message and ceph_decode_msg_osd_op.              *)
(*                                                                         *)
(* A front is described by what the decoder tests of it: the fields in     *)
(* the order they are read, the field the front ends before (cut), the     *)
(* versions and declared lengths of the two versioned structs, the         *)
(* declared num_ops and num_snaps, and the raw ops it holds.  The ops      *)
(* array of a front that ends inside it holds the whole ops only.          *)
(***************************************************************************)
CEPH_OSD_MAX_OPS == 16
MAX_NUM_SNAPS    == 1024
EINVAL           == 22

FrontFields ==
    <<"spgid", "hash", "epoch", "flags", "reqid_hdr", "reqid", "trace",
      "client_inc", "mtime", "oloc", "oid", "num_ops", "ops", "snapid",
      "snap_seq", "num_snaps", "snaps", "attempts", "features">>

FieldNo(name) == CHOOSE k \in DOMAIN FrontFields : FrontFields[k] = name

\* the bytes of the field lie before the end of the front
ceph_has_room(f, name) == f.cut = 0 \/ FieldNo(name) < f.cut

\* the header of a versioned struct: -EINVAL unless it is all there and
\* its struct_v is at least min_v
ceph_start_decoding(f, name, struct_v, min_v) ==
    IF ceph_has_room(f, name) /\ struct_v >= min_v THEN 0 ELSE -EINVAL

\* the placement group id: the versioned struct "pgid", its body, the shard,
\* and the test of the declared length against what was read
decode_spgid(f) ==
    IF ceph_start_decoding(f, "spgid", f.spgid_v, 1) # 0 THEN -EINVAL
    ELSE IF f.spgid_short THEN -EINVAL
    ELSE 0

ceph_oloc_decode(f) == IF ceph_has_room(f, "oloc") THEN 0 ELSE -EINVAL

\* the object name is copied into memory allocated for it
ceph_oid_aprintf(oom) == IF AllocFails(0, oom) THEN -ENOMEM ELSE 0

\* one op as it lies in the front (struct ceph_osd_op)
RawOp(opc, flags, off, len, payload_len) ==
    [op |-> opc, flags |-> flags, offset |-> off, length |-> len,
     payload_len |-> payload_len]

\* the opcodes the switch of osd_req_decode_op has a case for
CodecOps ==
    {"STAT", "READ", "WRITE", "WRITEFULL", "ZERO", "TRUNCATE", "CALL",
     "WATCH", "NOTIFY_ACK", "NOTIFY", "LIST_WATCHERS", "SETALLOCHINT",
     "SETXATTR", "CMPXATTR", "CREATE", "DELETE", "COPY_FROM2"}
ExtentOps == {"READ", "WRITE", "WRITEFULL", "ZERO", "TRUNCATE"}

\* an element of req->ops as init_msg_osd_op leaves it
ZeroOp == DecodedOp("NONE", {}, 0, 0, 0)

\* faulty variant of osd_req_decode_op: an op of an opcode the codec does
\* not know is passed on as it is
osd_req_decode_op_lax(f, k) ==
    IF k > Len(f.ops) THEN [ret |-> -EINVAL, op |-> ZeroOp]
    ELSE LET src == f.ops[k]
         IN  [ret |-> 0,
              op  |-> IF src.op \in ExtentOps
                      THEN DecodedOp(src.op, src.flags, src.offset,
                                     src.length, src.payload_len)
                      ELSE DecodedOp(src.op, src.flags, 0, 0,
                                     src.payload_len)]

\* the k-th op of the front into req->ops[k]
osd_req_decode_op(f, k) ==
    IF k > Len(f.ops) THEN [ret |-> -EINVAL, op |-> ZeroOp]
    ELSE LET src == f.ops[k]
         IN  IF src.op \notin CodecOps
             THEN [ret |-> -EINVAL,
                   op  |-> DecodedOp(src.op, src.flags, 0, 0,
                                     src.payload_len)]
             ELSE [ret |-> 0,
                   op  |-> IF src.op \in ExtentOps
                           THEN DecodedOp(src.op, src.flags, src.offset,
                                          src.length, src.payload_len)
                           ELSE DecodedOp(src.op, src.flags, 0, 0,
                                          src.payload_len)]

\* the loop over the ops: ret of the last osd_req_decode_op called (0 when
\* none was), and the ops decoded
RECURSIVE decode_ops(_, _, _)
decode_ops(f, k, acc) ==
    IF k > f.num_ops THEN [ret |-> 0, ops |-> acc]
    ELSE IF osd_req_decode_op(f, k).ret # 0
    THEN [ret |-> osd_req_decode_op(f, k).ret, ops |-> acc]
    ELSE decode_ops(f, k + 1, Append(acc, osd_req_decode_op(f, k).op))

\* What the decoder returns: ret, the request, and dead: the function left
\* through its err label, where deinit_msg_osd_op destroyed req->hoid and
\* req->oloc.  The ops array of the model holds the elements the op loop can
\* reach: num_ops of them, or all CEPH_OSD_MAX_OPS when num_ops is larger.
DecodeOut(ret, f, ops, dead) ==
    [ret  |-> ret,
     req  |-> [hoid |-> f.hoid, mtime |-> f.mtime, num_ops |-> f.num_ops,
               ops |-> ops],
     dead |-> dead]

\* the part of the decoder after the op array; ret is the value the
\* variable ret holds on entry (the last one assigned), ops the ops decoded
decode_snaps(f, ret, ops, oom) ==
    IF ~ceph_has_room(f, "snapid") \/ ~ceph_has_room(f, "snap_seq")
       \/ ~ceph_has_room(f, "num_snaps")
    THEN DecodeOut(-EINVAL, f, ops, TRUE)
    ELSE IF f.num_snaps > MAX_NUM_SNAPS
    THEN DecodeOut(ret, f, ops, TRUE)             \* goto err, ret not set
    ELSE IF f.num_snaps # 0 /\ AllocFails(1, oom) \* kmalloc_array
    THEN DecodeOut(-ENOMEM, f, ops, TRUE)
    ELSE IF f.num_snaps # 0 /\ ~ceph_has_room(f, "snaps")
    THEN DecodeOut(-EINVAL, f, ops, TRUE)
    ELSE IF ~ceph_has_room(f, "attempts") \/ ~ceph_has_room(f, "features")
    THEN DecodeOut(-EINVAL, f, ops, TRUE)
    ELSE DecodeOut(0, f, ops, FALSE)

\* the part of the decoder from num_ops on; ret is the value returned by
\* ceph_oid_aprintf; d is the result of the op loop
decode_num_ops(f, ret, d, oom) ==
    IF ~ceph_has_room(f, "num_ops")
    THEN DecodeOut(-EINVAL, f, <<>>, TRUE)
    ELSE IF f.num_ops > CEPH_OSD_MAX_OPS
    THEN DecodeOut(ret, f, [k \in 1..CEPH_OSD_MAX_OPS |-> ZeroOp], TRUE)
                                                  \* goto err, ret not set
    ELSE IF d.ret # 0
    THEN DecodeOut(d.ret, f, d.ops, TRUE)
    ELSE decode_snaps(f, IF f.num_ops = 0 THEN ret ELSE d.ret, d.ops, oom)

\* oom: the allocation of the decoder that fails (1: the object name,
\* 2: the snaps array; 0: none)
ceph_decode_msg_osd_op(f, oom) ==
    IF decode_spgid(f) # 0
    THEN DecodeOut(decode_spgid(f), f, <<>>, TRUE)
    ELSE IF ~ceph_has_room(f, "hash") \/ ~ceph_has_room(f, "epoch")
            \/ ~ceph_has_room(f, "flags")
    THEN DecodeOut(-EINVAL, f, <<>>, TRUE)
    ELSE IF ceph_start_decoding(f, "reqid_hdr", f.reqid_v, 2) # 0
    THEN DecodeOut(-EINVAL, f, <<>>, TRUE)
    ELSE IF ~ceph_has_room(f, "reqid") \/ f.reqid_short
    THEN DecodeOut(-EINVAL, f, <<>>, TRUE)
    ELSE IF ~ceph_has_room(f, "trace") \/ ~ceph_has_room(f, "client_inc")
            \/ ~ceph_has_room(f, "mtime")
    THEN DecodeOut(-EINVAL, f, <<>>, TRUE)
    ELSE IF ceph_oloc_decode(f) # 0
    THEN DecodeOut(ceph_oloc_decode(f), f, <<>>, TRUE)
    ELSE IF ~ceph_has_room(f, "oid")
    THEN DecodeOut(-EINVAL, f, <<>>, TRUE)
    ELSE IF ceph_oid_aprintf(oom) # 0
    THEN DecodeOut(ceph_oid_aprintf(oom), f, <<>>, TRUE)
    ELSE decode_num_ops(f, ceph_oid_aprintf(oom), decode_ops(f, 1, <<>>),
                        oom)

\* bounds of the explored inputs: ops per request, ops over all requests
MaxOps      == 2
MaxTotalOps == 3

Hoids  == {"x", "y"}
Mtimes == {<<42, 0>>, <<7, 5>>}
Garbage == {0, 85}

BS == OSDS_BLOCK_SIZE

WriteExtents == {<<0, 1>>, <<BS - 1, BS + 1>>, <<2 * BS, 1>>, <<0, 0>>}
ReadExtents  == {<<0, 3 * BS>>, <<BS - 1, BS + 1>>, <<2 * BS, 1>>, <<0, 0>>}

OpMenu ==
    {DecodedOp("WRITE", {}, e[1], e[2], e[2]) : e \in WriteExtents}
    \cup {DecodedOp("WRITE", {}, 0, 2, 1)}      \* payload shorter than extent
    \cup {DecodedOp("READ", {}, e[1], e[2], 0) : e \in ReadExtents}
    \cup {DecodedOp("STAT", {}, 0, 0, 0), DecodedOp("ZERO", {}, 0, 1, 0)}
    \cup {DecodedOp("WRITE", {"FAILOK"}, BS - 1, BS + 1, BS + 1),
          DecodedOp("READ", {"FAILOK"}, 0, 3 * BS, 0),
          DecodedOp("STAT", {"FAILOK"}, 0, 0, 0),
          DecodedOp("ZERO", {"FAILOK"}, 0, 1, 0)}

OpSeqs(menu) == UNION {[1..n -> menu] : n \in 1..MaxOps}

\* The message data a client sends with ops: the payloads of the ops in
\* order, indata_len bytes each.  Every op dispatched so far gets a fill
\* byte of its own: op k of a request that follows n earlier ops is sent
\* the byte 64 + n + k ('A' for the first op).
RECURSIVE Payloads(_, _, _)
Payloads(ops, n, k) ==
    IF k > Len(ops) THEN <<>>
    ELSE BufCat(BufFill(ops[k].indata_len, 64 + n + k),
                Payloads(ops, n, k + 1))

\* the requests worth telling apart: only a WRITE op reads req->mtime, and
\* the names of the objects are interchangeable until one is stored
HasWrite(ops) == \E k \in DOMAIN ops : ops[k].op = "WRITE"
MtimeChoices(ops) == IF HasWrite(ops) THEN Mtimes ELSE {<<42, 0>>}
HoidChoices(objs) == IF objs = <<>> THEN {"x"} ELSE Hoids

\* the allocation calls one op can make: the object, two per block of a
\* write (at most two blocks here), two for an out buffer
OomChoices(op) ==
    IF op.op = "WRITE" THEN 0..5
    ELSE IF op.op \in {"READ", "STAT"} THEN 0..2
    ELSE {0}

GarbageChoices(op) ==
    IF op.op \in {"WRITE", "READ", "STAT"} THEN Garbage ELSE {0}

WildChoices(op) == IF op.op = "STAT" THEN {"fault", "stray"} ELSE {"stray"}

\* the front a client sends for a request of the decoded ops: every field
\* present, versions and lengths as the encoder of the client writes them
RawOps(ops) ==
    [k \in DOMAIN ops |->
        RawOp(ops[k].op, ops[k].flags, ops[k].offset, ops[k].length,
              ops[k].indata_len)]

WellFormed(hoid, mtime, ops) ==
    [hoid |-> hoid, mtime |-> mtime, cut |-> 0,
     spgid_v |-> 1, spgid_short |-> FALSE,
     reqid_v |-> 2, reqid_short |-> FALSE,
     num_ops |-> Len(ops), ops |-> RawOps(ops), num_snaps |-> 0]

\* the fronts with one defect each, made from a well-formed front g
Truncated(g) ==
    {[g EXCEPT !.cut = c,
               !.ops = IF c = FieldNo("ops")
                       THEN SubSeq(@, 1, Len(@) - 1) ELSE @]
       : c \in DOMAIN FrontFields}

Defective(g) ==
    Truncated(g)
    \cup {[g EXCEPT !.num_snaps = 1, !.cut = FieldNo("snaps")],
          [g EXCEPT !.spgid_v = 0], [g EXCEPT !.spgid_short = TRUE],
          [g EXCEPT !.reqid_v = 1], [g EXCEPT !.reqid_short = TRUE],
          [g EXCEPT !.ops[1].op = "BOGUS"],
          [g EXCEPT !.ops[Len(g.ops)].op = "BOGUS"],
          [g EXCEPT !.num_ops = CEPH_OSD_MAX_OPS + 1, !.ops = <<>>],
          [g EXCEPT !.num_snaps = MAX_NUM_SNAPS + 1],
          [g EXCEPT !.num_snaps = MAX_NUM_SNAPS],
          [g EXCEPT !.num_snaps = 1]}

\* the ops of the requests explored along with the defective fronts, and
\* the ops of the fronts the defects are put in
DecMenu ==
    {DecodedOp("WRITE", {}, 0, 1, 1),
     DecodedOp("STAT", {}, 0, 0, 0)}
DecSeqs ==
    {<<DecodedOp("WRITE", {}, 0, 1, 1)>>,
     <<DecodedOp("STAT", {}, 0, 0, 0), DecodedOp("WRITE", {}, 0, 1, 1)>>}

\* the allocations of the decoder
DecOomChoices(f) == IF f.num_snaps # 0 THEN 0..2 ELSE 0..1

\* the reads of create_osd_op_reply past the end of req->ops
WildReply(r) ==
    IF r.num_ops > CEPH_OSD_MAX_OPS THEN {"fault", "stray", "stale"}
    ELSE {"stray"}

(***************************************************************************)
(* The op codec on all the members of an op (osd_req_encode_op and         *)
(* osd_req_decode_op); the server above carries of an op its extent only.  *)
(*                                                                         *)
(* A value of the program is the row of its bytes from the most            *)
(* significant down (one byte for a u8, eight for a u64); a member of the  *)
(* wire struct is the row of its bytes in memory, a little-endian value    *)
(* from the least significant up.  The opcode is held by its name.         *)
(***************************************************************************)
Reverse(b) == [k \in 1..Len(b) |-> b[Len(b) + 1 - k]]

\* the value of a row of bytes converted to an unsigned type of n bytes
ToWidth(v, n) ==
    [k \in 1..n |-> IF k + Len(v) - n >= 1 THEN v[k + Len(v) - n] ELSE 0]

\* cpu_to_le16, cpu_to_le32, cpu_to_le64 and their inverses
cpu_to_le(v, n) == Reverse(ToWidth(v, n))
le_to_cpu(b, n) == ToWidth(Reverse(b), n)

\* faulty variant of EncodedMembers: the extent is encoded without its
\* truncate_seq
EncodedMembers_noSeq(opc) ==
    IF opc \in ExtentOps
    THEN << <<"offset", 8>>, <<"length", 8>>, <<"truncate_size", 8>> >>
    ELSE <<>>

\* The members osd_req_encode_op writes for an opcode from the op, in the
\* order of the code, each with the bytes of its conversion (1: a byte
\* assigned as it is).  watch.ver, written as zero, is not among them.
EncodedMembers(opc) ==
    CASE opc \in ExtentOps ->
           << <<"offset", 8>>, <<"length", 8>>, <<"truncate_size", 8>>,
              <<"truncate_seq", 4>> >>
      [] opc = "CALL" ->
           << <<"class_len", 1>>, <<"method_len", 1>>, <<"indata_len", 4>> >>
      [] opc = "WATCH" -> << <<"cookie", 8>>, <<"op", 1>>, <<"gen", 4>> >>
      [] opc = "NOTIFY" -> << <<"cookie", 8>> >>
      [] opc = "SETALLOCHINT" ->
           << <<"expected_object_size", 8>>, <<"expected_write_size", 8>> >>
      [] opc \in {"SETXATTR", "CMPXATTR"} ->
           << <<"name_len", 4>>, <<"value_len", 4>>, <<"cmp_op", 1>>,
              <<"cmp_mode", 1>> >>
      [] opc = "COPY_FROM2" ->
           << <<"snapid", 8>>, <<"src_version", 8>>, <<"flags", 1>>,
              <<"src_fadvise_flags", 4>> >>
      [] OTHER -> <<>>

\* the members osd_req_decode_op reads for an opcode
DecodedMembers(opc) ==
    CASE opc \in ExtentOps ->
           << <<"offset", 8>>, <<"length", 8>>, <<"truncate_size", 8>>,
              <<"truncate_seq", 4>> >>
      [] opc = "CALL" ->
           << <<"class_len", 1>>, <<"method_len", 1>>, <<"indata_len", 4>> >>
      [] opc = "WATCH" -> << <<"cookie", 8>>, <<"op", 1>>, <<"gen", 4>> >>
      [] opc = "NOTIFY" -> << <<"cookie", 8>> >>
      [] opc = "SETALLOCHINT" ->
           << <<"expected_object_size", 8>>, <<"expected_write_size", 8>> >>
      [] opc \in {"SETXATTR", "CMPXATTR"} ->
           << <<"name_len", 4>>, <<"value_len", 4>>, <<"cmp_op", 1>>,
              <<"cmp_mode", 1>> >>
      [] opc = "COPY_FROM2" ->
           << <<"snapid", 8>>, <<"src_version", 8>>, <<"flags", 1>>,
              <<"src_fadvise_flags", 4>> >>
      [] OTHER -> <<>>

\* the members of the opcode-specific part of an op, with their bytes
UnionMembers ==
    [offset |-> 8, length |-> 8, truncate_size |-> 8, truncate_seq |-> 4,
     class_len |-> 1, method_len |-> 1, indata_len |-> 4,
     cookie |-> 8, ver |-> 8, op |-> 1, gen |-> 4,
     expected_object_size |-> 8, expected_write_size |-> 8,
     name_len |-> 4, value_len |-> 4, cmp_op |-> 1, cmp_mode |-> 1,
     snapid |-> 8, src_version |-> 8, flags |-> 1, src_fadvise_flags |-> 4]

\* n bytes all of value v
Bytes(n, v) == [k \in 1..n |-> v]

\* a struct ceph_osd_op of the front with every byte v
WireMemory(v) ==
    [op |-> "NONE", flags |-> Bytes(4, v), payload_len |-> Bytes(4, v),
     m |-> [name \in DOMAIN UnionMembers |-> Bytes(UnionMembers[name], v)]]

\* a struct ceph_osd_req_op as memset leaves it
ZeroReqOp ==
    [op |-> "NONE", flags |-> Bytes(4, 0), indata_len |-> Bytes(4, 0),
     outdata_len |-> Bytes(4, 0),
     m |-> [name \in DOMAIN UnionMembers |-> Bytes(UnionMembers[name], 0)]]

\* the bytes of conversion of the member name in the list ms, 0 if it is
\* not in it
ConvOf(ms, name) ==
    IF \E j \in DOMAIN ms : ms[j][1] = name
    THEN ms[CHOOSE j \in DOMAIN ms : ms[j][1] = name][2]
    ELSE 0

\* the bytes b stored in a member of n bytes of memory
Stored(b, n) == [k \in 1..n |-> IF k <= Len(b) THEN b[k] ELSE 0]

\* osd_req_encode_op on all members: src into the raw op dst
osd_req_encode_op_wire(src, dst, ms) ==
    IF src.op \notin CodecOps THEN [raw |-> dst, len |-> Bytes(4, 0)]
    ELSE [raw |-> [op          |-> src.op,
                   flags       |-> cpu_to_le(src.flags, 4),
                   payload_len |-> cpu_to_le(src.outdata_len, 4),
                   m |-> [name \in DOMAIN UnionMembers |->
                            IF ConvOf(ms, name) # 0
                            THEN Stored(cpu_to_le(src.m[name],
                                                  ConvOf(ms, name)),
                                        UnionMembers[name])
                            ELSE IF src.op = "WATCH" /\ name = "ver"
                            THEN cpu_to_le(Bytes(8, 0), 8)
                            ELSE dst.m[name]]],
          len |-> src.outdata_len]

\* osd_req_decode_op on all members: the raw op src into dst
osd_req_decode_op_wire(src, dst, ms) ==
    IF src.op \notin CodecOps
    THEN [ret |-> -EINVAL,
          op  |-> [dst EXCEPT !.op = src.op,
                              !.flags = le_to_cpu(src.flags, 4),
                              !.indata_len = le_to_cpu(src.payload_len, 4)]]
    ELSE [ret |-> 0,
          op  |-> [op          |-> src.op,
                   flags       |-> le_to_cpu(src.flags, 4),
                   indata_len  |-> le_to_cpu(src.payload_len, 4),
                   outdata_len |-> dst.outdata_len,
                   m |-> [name \in DOMAIN UnionMembers |->
                            IF ConvOf(ms, name) # 0
                            THEN ToWidth(le_to_cpu(
                                           SubSeq(src.m[name], 1,
                                                  ConvOf(ms, name)),
                                           ConvOf(ms, name)),
                                         UnionMembers[name])
                            ELSE dst.m[name]]]]

(***************************************************************************)
(* The buffer iterator (src/src/iov_iter.c).                               *)
(*                                                                         *)
(* An iov_iter it is [type, segs, p, nr_segs, iov_offset, count]: segs are *)
(* the lengths of the segments of the array the iterator was set on, p is  *)
(* the index in it of the segment i->iov / i->kvec / i->bvec points at.    *)
(* A byte of the backing memory is named <<segment, offset>>.              *)
(*                                                                         *)
(* size_t values are held as the signed reading of their 64 bits: v for    *)
(* v < 2^63 and v - 2^64 above, so that the subtraction of the code is the *)
(* subtraction of integers and its comparisons are SizeLess.               *)
(***************************************************************************)
SizeLess(a, b) == IF (a >= 0) = (b >= 0) THEN a < b ELSE a >= 0

\* faulty variant of ClampToCount: the request is taken as it is
ClampToCount_none(n, count) == n

\* iterate_and_advance: if (i->count < n) n = i->count
ClampToCount(n, count) == IF SizeLess(count, n) THEN count ELSE n

\* the bytes <<p, off>> .. <<p, off + len - 1>>
Chunk(p, off, len) == [k \in 1..len |-> <<p, off + k - 1>>]

\* One STEP of a walk w = [p, skip, n, left, ok, out, oob] over len bytes of
\* segment w.p from offset off.  ok is the number of bytes the checked copy
\* can still move before it faults; the STEP returns the bytes not moved.
IterStep(w, len, off) ==
    [w EXCEPT !.left = len - Min(len, w.ok),
              !.ok   = @ - Min(len, w.ok),
              !.skip = off + Min(len, w.ok),
              !.n    = @ - Min(len, w.ok),
              !.out  = @ \o Chunk(w.p, off, Min(len, w.ok))]

\* the while loop of iterate_iovec
RECURSIVE iovec_loop(_, _)
iovec_loop(segs, w) ==
    IF w.left # 0 \/ w.n = 0 THEN w
    ELSE IF w.p + 1 > Len(segs) THEN [w EXCEPT !.oob = TRUE]
    ELSE IF Min(w.n, segs[w.p + 1]) = 0
    THEN iovec_loop(segs, [w EXCEPT !.p = @ + 1])
    ELSE iovec_loop(segs, IterStep([w EXCEPT !.p = @ + 1],
                                   Min(w.n, segs[w.p + 1]), 0))

\* faulty variant of IovecDone: the bytes that faulted count as done
IovecDone_all(wanted, n) == wanted

\* iterate_iovec: n = wanted - n
IovecDone(wanted, n) == wanted - n

\* iterate_iovec over n bytes from offset skip of segment p
iterate_iovec(segs, p, skip, n, ok) ==
    LET w0 == [p |-> p, skip |-> skip, n |-> n, left |-> 0, ok |-> ok,
               out |-> <<>>, oob |-> FALSE]
        w  == IF p > Len(segs) THEN [w0 EXCEPT !.oob = TRUE]
              ELSE iovec_loop(segs,
                         IF Min(n, segs[p] - skip) # 0
                         THEN IterStep(w0, Min(n, segs[p] - skip), skip)
                         ELSE w0)
    IN  [w EXCEPT !.n = IovecDone(n, w.n)]

\* iterate_kvec: the same walk with a STEP that moves every byte;
\* n = wanted
iterate_kvec(segs, p, skip, n) ==
    LET w0 == [p |-> p, skip |-> skip, n |-> n, left |-> 0, ok |-> n,
               out |-> <<>>, oob |-> FALSE]
        w  == IF p > Len(segs) THEN [w0 EXCEPT !.oob = TRUE]
              ELSE iovec_loop(segs,
                         IF Min(n, segs[p] - skip) # 0
                         THEN IterStep(w0, Min(n, segs[p] - skip), skip)
                         ELSE w0)
    IN  [w EXCEPT !.n = n]

\* bvec_iter_advance: whole segments consumed move the index
RECURSIVE bvec_settle(_, _)
bvec_settle(segs, w) ==
    IF w.skip # 0 /\ w.p <= Len(segs) /\ w.skip >= segs[w.p]
    THEN bvec_settle(segs, [w EXCEPT !.skip = @ - segs[w.p], !.p = @ + 1])
    ELSE w

\* iterate_bvec: for_each_bvec over n bytes from offset skip of segment p
RECURSIVE bvec_loop(_, _)
bvec_loop(segs, w) ==
    IF w.n = 0 THEN w
    ELSE IF w.p > Len(segs) THEN [w EXCEPT !.oob = TRUE]
    ELSE bvec_loop(segs,
                   bvec_settle(segs,
                               IterStep(w, Min(w.n, segs[w.p] - w.skip),
                                        w.skip)))

iterate_bvec(segs, p, skip, n) ==
    LET w == bvec_loop(segs, [p |-> p, skip |-> skip, n |-> n, left |-> 0,
                              ok |-> n, out |-> <<>>, oob |-> FALSE])
    IN  [w EXCEPT !.n = n]

\* if (skip == iov->iov_len) { iov++; skip = 0; }
NextIfDone(segs, w) ==
    IF w.p <= Len(segs) /\ w.skip = segs[w.p]
    THEN [w EXCEPT !.p = @ + 1, !.skip = 0]
    ELSE w

\* the iterator after a walk w of it: i->count -= n, i->iov_offset = skip
IterAfter(it, w) ==
    [it  |-> [it EXCEPT !.nr_segs = @ - (w.p - it.p), !.p = w.p,
                        !.iov_offset = w.skip, !.count = @ - w.n],
     n   |-> w.n,
     out |-> w.out,
     oob |-> w.oob]

\* iterate_and_advance with n already clamped to the count
IterWalk(it, n, ok) ==
    IF it.count = 0
    THEN [it |-> it, n |-> n, out |-> <<>>, oob |-> FALSE]
    ELSE CASE it.type = "bvec" ->
                IterAfter(it, iterate_bvec(it.segs, it.p, it.iov_offset, n))
           [] it.type = "kvec" ->
                IterAfter(it, NextIfDone(it.segs,
                              iterate_kvec(it.segs, it.p, it.iov_offset, n)))
           [] it.type = "discard" ->
                [it  |-> [it EXCEPT !.iov_offset = @ + n, !.count = @ - n],
                 n |-> n, out |-> <<>>, oob |-> FALSE]
           [] OTHER ->
                IterAfter(it, NextIfDone(it.segs,
                              iterate_iovec(it.segs, it.p, it.iov_offset,
                                            n, ok)))

iterate_and_advance(it, n, ok) == IterWalk(it, ClampToCount(n, it.count), ok)

\* iov_iter_advance: the STEP of every kind is 0, nothing faults
iov_iter_advance(it, size) ==
    IF it.type = "discard"
    THEN [it |-> [it EXCEPT !.count = @ - size], n |-> size, out |-> <<>>,
          oob |-> FALSE]
    ELSE iterate_and_advance(it, size, size)

\* _copy_from_iter and _copy_to_iter: the bytes moved are r.out in order,
\* the value returned is r.n; only the checked copy of an iovec can fault
copy_iter(it, bytes, ok) ==
    iterate_and_advance(it, bytes, IF it.type = "iovec" THEN ok ELSE bytes)

\* The chunks a walk handed to its STEP, from the bytes out it covered:
\* one chunk [p, off, len] for each segment it took bytes from.
RECURSIVE OutChunks(_)
OutChunks(out) ==
    IF out = <<>> THEN <<>>
    ELSE << [p   |-> out[1][1],
             off |-> out[1][2],
             len |-> Cardinality({k \in DOMAIN out : out[k][1] = out[1][1]})] >>
         \o OutChunks(SubSeq(out,
                 Cardinality({k \in DOMAIN out : out[k][1] = out[1][1]}) + 1,
                 Len(out)))

\* iterate_all_kinds: the walk over n bytes, n not clamped to the count and
\* the iterator left as it is.  The STEP of an iovec is -EINVAL, a non-zero
\* remainder that ends the walk before any byte; a Discard has no walk.
iterate_all_kinds(it, n) ==
    CASE it.type = "bvec" -> iterate_bvec(it.segs, it.p, it.iov_offset, n)
      [] it.type = "kvec" -> iterate_kvec(it.segs, it.p, it.iov_offset, n)
      [] it.type = "discard" ->
            [p |-> it.p, skip |-> it.iov_offset, n |-> n, left |-> 0,
             ok |-> 0, out |-> <<>>, oob |-> FALSE]
      [] OTHER -> iterate_iovec(it.segs, it.p, it.iov_offset, n, 0)

\* the last value that is not zero among the first k of errs, zero if none
LastNonZero(errs, k) ==
    IF \E j \in 1..k : errs[j] # 0
    THEN errs[CHOOSE j \in 1..k : errs[j] # 0 /\ \A l \in (j + 1)..k : errs[l] = 0]
    ELSE 0

\* iov_iter_for_each_range: err = -EINVAL, then err = f(&w, context) in
\* every STEP; errs[j] is what the j-th call of f returns, k the calls made
RangeErr(errs, k) == IF k = 0 THEN -EINVAL ELSE errs[k]

\* iov_iter_for_each_range, w its walk
RangeResult(bytes, errs, w) ==
    [ret  |-> IF bytes = 0 THEN 0 ELSE RangeErr(errs, Len(OutChunks(w.out))),
     out  |-> IF bytes = 0 THEN <<>> ELSE w.out,
     oob  |-> bytes # 0 /\ w.oob]

iov_iter_for_each_range(it, bytes, errs) ==
    RangeResult(bytes, errs,
                iterate_all_kinds(IF bytes = 0
                                  THEN [it EXCEPT !.type = "discard"]
                                  ELSE it, bytes))

\* iov_iter_kvec, iov_iter_bvec, and the like for the other two kinds
iov_iter_init(type, segs, count) ==
    [type |-> type, segs |-> segs, p |-> 1, nr_segs |-> Len(segs),
     iov_offset |-> 0, count |-> count]

(***************************************************************************)
(* State.                                                                  *)
(***************************************************************************)
VARIABLES
    s_objects,   \* osds->s_objects: hoid -> [o_size, o_mtime, o_blocks]
    noop_write,  \* the NOOP_WRITE option of the messenger
    pc,          \* "idle", "ops" (in the op loop), "reply", "spin", "bug"
    req,         \* the decoded request being handled
    in_cur,      \* the input cursor of the request
    i,           \* the number of ops of req executed so far
    ret,         \* ret of handle_osd_ops
    reply,       \* the reply sent for the last request
    nops,        \* the number of ops dispatched so far (all requests)
    written,     \* history: hoid -> the bytes the WRITE ops that returned
                 \*          0 were asked to write
    wfailed,     \* history: the hoids a WRITE op returned an error on
    wnooped,     \* history: the hoids a WRITE op was skipped on (NOOP_WRITE)
    before,      \* history: s_objects as it was when the op last run began
    msg,         \* the front of the message being dispatched
    con_open,    \* the connection has not been closed
    iter,        \* an iov_iter (the iterator under test)
    call,        \* the last call made on iter: function, arguments, result
    codec,       \* an op on its way through the codec: op, raw op, op
    life         \* the process: where main and its tasks are, what they hold

vars == <<s_objects, noop_write, pc, req, in_cur, i, ret, reply, nops,
          written, wfailed, wnooped, before, msg, con_open, iter, call, codec,
          life>>

NoReq   == [hoid |-> "x", mtime |-> <<0, 0>>, num_ops |-> 0, ops |-> <<>>]
NoMsg   == WellFormed("x", <<0, 0>>, <<>>)
NoIter  == iov_iter_init("discard", <<>>, 0)
NoCall  == [fn |-> "none", n |-> 0, ok |-> 0, errs |-> <<>>, ret |-> 0,
            out |-> <<>>, oob |-> FALSE, was |-> NoIter]
\* the process before main has run; exit is -1 while it runs; destroys
\* counts the calls of ceph_destroy_osd_server, on_error tells that one of
\* them was handed an error value, loops counts the calls of destroy_loop
NoArgs  == [mon_addrs |-> "none", has_name |-> FALSE, name |-> <<>>,
            param |-> 0]
NoLife  == [pc |-> "main", args |-> NoArgs, osd |-> 0, ret |-> 0,
            start_ret |-> 0,
            caller |-> "none", steps |-> <<>>, clock |-> 0,
            listening |-> FALSE, client |-> FALSE, map |-> "none",
            stop_in_progress |-> FALSE, loop |-> TRUE, freed |-> 0,
            destroys |-> 0, on_error |-> FALSE, loops |-> 0,
            exit |-> -1]
\* the process with the server started and serving
Serving == [NoLife EXCEPT !.pc = "running", !.listening = TRUE,
                          !.client = TRUE, !.map = "up",
                          !.steps = <<"open_session", "start_listen",
                                      "crush_add", "boot">>]
NoCodec == [stage |-> "none", x |-> ZeroReqOp, dst |-> WireMemory(0),
            raw |-> WireMemory(0), ret |-> 0, y |-> ZeroReqOp]
NoReply == [sent |-> FALSE, result |-> 0, ops |-> <<>>, raw_ops |-> <<>>,
            data_len |-> 0, n_items |-> 0, items |-> <<>>]

InitServer ==
    /\ s_objects = <<>>
    /\ noop_write \in BOOLEAN
    /\ pc = "idle"
    /\ req = NoReq
    /\ in_cur = ceph_msg_data_cursor_init(<<>>)
    /\ i = 0
    /\ ret = 0
    /\ reply = NoReply
    /\ nops = 0
    /\ written = [h \in Hoids |-> <<>>]
    /\ wfailed = {}
    /\ wnooped = {}
    /\ before = <<>>
    /\ msg = NoMsg
    /\ con_open = TRUE

Init ==
    /\ InitServer
    /\ iter = NoIter
    /\ call = NoCall
    /\ codec = NoCodec
    /\ life = Serving

(***************************************************************************)
(* handle_osd_ops up to the loop: a message is dispatched, decoded, and    *)
(* the input cursor is set on its data.                                    *)
(***************************************************************************)
\* the ops the loop can run of a decoded request: an op of the zeroed
\* array is not supported and ends the loop
OpsToRun(d) ==
    IF d.ret # 0 THEN 0
    ELSE IF d.req.num_ops > CEPH_OSD_MAX_OPS THEN 1
    ELSE d.req.num_ops

\* the return on a decode error; the connection is left as it is
ConAfterDecode_close(r, open) == IF r # 0 THEN FALSE ELSE open

ConAfterDecode(r, open) == open

\* d: what the decoder made of the front f
AfterDecode(f, d, hoid) ==
    /\ nops + OpsToRun(d) <= MaxTotalOps
    /\ msg' = f
    /\ ret' = d.ret
    /\ con_open' = ConAfterDecode(d.ret, con_open)
    /\ nops' = nops + OpsToRun(d)
    /\ req' = IF d.ret # 0 THEN NoReq ELSE [d.req EXCEPT !.hoid = hoid]
    /\ in_cur' = IF d.ret # 0 THEN ceph_msg_data_cursor_init(<<>>)
                 ELSE ceph_msg_data_cursor_init(
                          Payloads(d.req.ops, nops, 1))
    /\ pc' = IF d.ret # 0 THEN "drop"
             ELSE IF d.req.num_ops = 0 THEN "reply" ELSE "ops"
    /\ i' = 0
    /\ reply' = NoReply
    /\ before' = <<>>
    /\ UNCHANGED <<s_objects, noop_write, written, wfailed, wnooped,
                   iter, call, codec,
                   life>>

\* A message with front f is dispatched.  hoid is the identity the handlers
\* find in req->hoid: the decoded one, or, when the decoder returned 0
\* through its err label, whatever the destroyed hoid compares equal to.
RecvFront(f, oom, hoid) ==
    /\ pc = "idle"
    /\ con_open
    /\ f.hoid \in HoidChoices(s_objects)
    /\ f.mtime \in MtimeChoices(f.ops)
    /\ oom \in DecOomChoices(f)
    /\ ceph_decode_msg_osd_op(f, oom).dead \/ hoid = f.hoid
    /\ AfterDecode(f, ceph_decode_msg_osd_op(f, oom), hoid)

\* a message whose front is well-formed
RecvMsg(hoid, mtime, ops) ==
    /\ nops + Len(ops) <= MaxTotalOps
    /\ RecvFront(WellFormed(hoid, mtime, ops), 0, hoid)

\* the return of handle_osd_ops on a decode error, and ceph_msg_put
DropMsg ==
    /\ pc = "drop"
    /\ pc' = "idle"
    /\ msg' = NoMsg
    /\ ret' = 0
    /\ UNCHANGED <<s_objects, noop_write, req, in_cur, i, reply, nops,
                   written, wfailed, wnooped, before, con_open, iter, call, codec,
                   life>>

\* the fault callback of the messenger
osds_fault ==
    /\ pc = "idle"
    /\ con_open
    /\ con_open' = FALSE
    /\ UNCHANGED <<s_objects, noop_write, pc, req, in_cur, i, ret, reply,
                   nops, written, wfailed, wnooped, before, msg, iter, call, codec,
                   life>>

(***************************************************************************)
(* One iteration of the op loop of handle_osd_ops.                         *)
(***************************************************************************)
\* faulty variant of LoopRet: the FAILOK flag is ignored
LoopRet_noFailok(r, op) == r

\* faulty variant of LoopRet: every error is swallowed, flag or not
LoopRet_swallowAll(r, op) ==
    IF r # 0 /\ r # -EAGAIN /\ r # -EINPROGRESS THEN 0 ELSE r

\* ret after the FAILOK test
LoopRet(r, op) ==
    IF r # 0 /\ "FAILOK" \in op.flags /\ r # -EAGAIN /\ r # -EINPROGRESS
    THEN 0 ELSE r

\* the offset in the message data of the payload of op k
RECURSIVE PayloadPos(_, _)
PayloadPos(ops, k) ==
    IF k <= 1 THEN 0
    ELSE PayloadPos(ops, k - 1)
         + (IF ops[k - 1].op = "WRITE" THEN ops[k - 1].length ELSE 0)

\* history: a WRITE op that returned 0 wrote its length bytes of payload
WrittenAfter(w, op, data, pos) ==
    LET n    == op.length
        have == BufLen(w)
        pad  == BufCat(w, BufFill(op.offset + n - have, 0))
    IN  IF n = 0 THEN w
        ELSE BufPoke(pad, op.offset, BufSlice(data, pos, n))

\* the loop body after handle_osd_op returned r for op (or did not return)
AfterOp(op, r) ==
    /\ s_objects' = r.objs
    /\ in_cur' = r.cur
    /\ req' = [req EXCEPT !.ops[i + 1] = r.op]
    /\ i' = i + 1
    /\ IF r.end = "ret"
       THEN /\ ret' = LoopRet(r.ret, op)
            /\ pc' = IF LoopRet(r.ret, op) # 0 \/ i + 1 = req.num_ops
                     THEN "reply" ELSE "ops"
       ELSE /\ ret' = ret
            /\ pc' = r.end
    /\ written' = IF op.op = "WRITE" /\ r.end = "ret" /\ r.ret = 0
                  THEN [written EXCEPT ![req.hoid] =
                          WrittenAfter(@, op, in_cur.data,
                                       PayloadPos(req.ops, i + 1))]
                  ELSE written
    /\ wfailed' = IF op.op = "WRITE" /\ r.end = "ret" /\ r.ret # 0
                  THEN wfailed \cup {req.hoid} ELSE wfailed
    /\ wnooped' = IF op.op = "WRITE" /\ noop_write
                     /\ op.length >= NOOP_WRITE_MIN
                  THEN wnooped \cup {req.hoid} ELSE wnooped
    /\ before' = s_objects

HandleOp(oom, garbage, wild) ==
    /\ pc = "ops"
    /\ i < req.num_ops
    /\ oom \in OomChoices(req.ops[i + 1])
    /\ garbage \in GarbageChoices(req.ops[i + 1])
    /\ wild \in WildChoices(req.ops[i + 1])
    /\ AfterOp(req.ops[i + 1],
               handle_osd_op(s_objects, req.hoid, req.mtime, req.ops[i + 1],
                             in_cur, noop_write, oom, garbage, wild))
    /\ UNCHANGED <<noop_write, reply, nops, msg, con_open, iter, call, codec,
                   life>>

(***************************************************************************)
(* create_osd_op_reply and ceph_con_send.  msg_fails: ceph_msg_new2 fails  *)
(* and no reply is sent.                                                   *)
(***************************************************************************)
RECURSIVE SumOutdataLen(_)
SumOutdataLen(ops) ==
    IF ops = <<>> THEN 0 ELSE ops[1].outdata_len + SumOutdataLen(Tail(ops))

RECURSIVE OutItems(_)
OutItems(ops) ==
    IF ops = <<>> THEN <<>>
    ELSE (IF ops[1].has_outdata THEN <<ops[1].outdata>> ELSE <<>>)
         \o OutItems(Tail(ops))

\* The bytes of the front where a raw op is encoded, as ceph_msg_new2 left
\* them: zero, or, "stale", what the memory held before (0x55 in each byte;
\* of the 64-bit members the low half is kept).
FrontMemory(wild) ==
    IF wild = "stale"
    THEN RawOp("STALE", {"STALE"}, 85 * 16843009, 85 * 16843009,
               85 * 16843009)
    ELSE RawOp("NONE", {}, 0, 0, 0)

\* osd_req_encode_op: src, an element of req->ops, into dst, the place of
\* the raw op in the front; returns the bytes of out-data of the op.  An
\* opcode without a case returns 0 and writes nothing.
osd_req_encode_op(src, dst) ==
    IF src.op \notin CodecOps THEN [raw |-> dst, len |-> 0]
    ELSE [raw |-> RawOp(src.op, src.flags,
                        IF src.op \in ExtentOps THEN src.offset
                        ELSE dst.offset,
                        IF src.op \in ExtentOps THEN src.length
                        ELSE dst.length,
                        U32(src.outdata_len)),
          len |-> U32(src.outdata_len)]

\* data_len += osd_req_encode_op(raw_op, op), over the ops
RECURSIVE SumEncoded(_, _)
SumEncoded(ops, dst) ==
    IF ops = <<>> THEN 0
    ELSE osd_req_encode_op(ops[1], dst).len + SumEncoded(Tail(ops), dst)

create_osd_op_reply(r, result, wild) ==
    [sent     |-> TRUE,
     result   |-> result,
     ops      |-> r.ops,
     raw_ops  |-> [k \in DOMAIN r.ops |->
                     osd_req_encode_op(r.ops[k], FrontMemory(wild)).raw],
     data_len |-> U32(SumEncoded(r.ops, FrontMemory(wild))),
     n_items  |-> Cardinality({k \in DOMAIN r.ops : r.ops[k].outdata_len # 0}),
     items    |-> OutItems(r.ops)]

\* wild: with num_ops > CEPH_OSD_MAX_OPS the loops of create_osd_op_reply
\* read outdata_len and outdata past the end of req->ops; "fault": an
\* outdata read there is not a pointer to data and the process dies,
\* "stray": what is read there adds nothing to the reply, "stale": the
\* same, and the front of the new message is memory that was used before
CreateReply(msg_fails, wild) ==
    /\ pc = "reply"
    /\ wild \in WildReply(req)
    /\ IF wild = "fault"
       THEN /\ pc' = "bug"
            /\ UNCHANGED <<reply, req, in_cur, i, ret, before, msg>>
       ELSE /\ reply' = IF msg_fails THEN NoReply
                        ELSE create_osd_op_reply(req, ret, wild)
            /\ pc' = "idle"
            /\ req' = NoReq
            /\ in_cur' = ceph_msg_data_cursor_init(<<>>)
            /\ i' = 0
            /\ ret' = 0
            /\ before' = <<>>
            /\ msg' = NoMsg
    /\ UNCHANGED <<s_objects, noop_write, nops, written, wfailed, wnooped,
                   con_open, iter, call, codec,
                   life>>

\* the same iteration when the stray store of a STAT may land in the store
HandleOpStray(oom, garbage, wild) ==
    /\ pc = "ops"
    /\ i < req.num_ops
    /\ oom \in OomChoices(req.ops[i + 1])
    /\ garbage \in GarbageChoices(req.ops[i + 1])
    /\ wild \in (IF req.ops[i + 1].op = "STAT"
                 THEN {"fault", "stray", "hit"} ELSE {"stray"})
    /\ AfterOp(req.ops[i + 1],
               handle_osd_op(s_objects, req.hoid, req.mtime, req.ops[i + 1],
                             in_cur, noop_write, oom, garbage, wild))
    /\ UNCHANGED <<noop_write, reply, nops, msg, con_open, iter, call, codec,
                   life>>

Next ==
    \/ \E hoid \in Hoids, mtime \in Mtimes, ops \in OpSeqs(OpMenu) :
          RecvMsg(hoid, mtime, ops)
    \/ \E oom \in 0..5, garbage \in Garbage, wild \in {"fault", "stray"} :
          HandleOp(oom, garbage, wild)
    \/ \E msg_fails \in BOOLEAN : CreateReply(msg_fails, "stray")

Spec == Init /\ [][Next]_vars

(***************************************************************************)
(* The same server fed the requests of the concrete scenarios: sparse      *)
(* write and read over the hole, read inside the first block, STAT after   *)
(* a one-byte write.                                                       *)
(***************************************************************************)
ScenMenu ==
    {DecodedOp("WRITE", {}, 0, 100, 100),
     DecodedOp("WRITE", {}, 2 * BS, 100, 100),
     DecodedOp("READ", {}, 0, 200000, 0),
     DecodedOp("READ", {}, 20, 50, 0),
     DecodedOp("WRITE", {}, 5 * BS + 7, 1, 1),
     DecodedOp("STAT", {}, 0, 0, 0)}

NextScen ==
    \/ \E hoid \in Hoids, mtime \in Mtimes, ops \in OpSeqs(ScenMenu) :
          RecvMsg(hoid, mtime, ops)
    \/ \E oom \in 0..5, garbage \in Garbage, wild \in {"fault", "stray"} :
          HandleOp(oom, garbage, wild)
    \/ \E msg_fails \in BOOLEAN : CreateReply(msg_fails, "stray")

SpecScen == Init /\ [][NextScen]_vars

(***************************************************************************)
(* The same server when the stray store of handle_osd_op_stat may land in  *)
(* the store.                                                              *)
(***************************************************************************)
StatMenu ==
    {DecodedOp("WRITE", {}, 0, 1, 1),
     DecodedOp("WRITE", {}, BS - 1, BS + 1, BS + 1),
     DecodedOp("READ", {}, 0, 3 * BS, 0),
     DecodedOp("READ", {"FAILOK"}, 0, 3 * BS, 0),
     DecodedOp("STAT", {}, 0, 0, 0),
     DecodedOp("STAT", {"FAILOK"}, 0, 0, 0),
     DecodedOp("ZERO", {"FAILOK"}, 0, 1, 0)}

NextStat ==
    \/ \E hoid \in Hoids, mtime \in Mtimes, ops \in OpSeqs(StatMenu) :
          RecvMsg(hoid, mtime, ops)
    \/ \E oom \in 0..5, garbage \in Garbage :
          \E wild \in {"fault", "stray", "hit"} :
             HandleOpStray(oom, garbage, wild)
    \/ \E msg_fails \in BOOLEAN : CreateReply(msg_fails, "stray")

SpecStat == Init /\ [][NextStat]_vars

(***************************************************************************)
(* The same server fed requests of up to three ops, the WRITE ops carrying *)
(* payloads told apart by their bytes, with READ and STAT between them.    *)
(***************************************************************************)
MaxCurOps == 3

CurMenu ==
    {DecodedOp("WRITE", {}, 0, 1, 1),
     DecodedOp("WRITE", {}, BS - 1, BS + 1, BS + 1),
     DecodedOp("READ", {}, 0, 3 * BS, 0),
     DecodedOp("STAT", {}, 0, 0, 0)}

NextCur ==
    \/ \E hoid \in Hoids, mtime \in Mtimes :
          \E ops \in UNION {[1..n -> CurMenu] : n \in 1..MaxCurOps} :
             RecvMsg(hoid, mtime, ops)
    \/ \E oom \in 0..5, garbage \in Garbage, wild \in {"fault", "stray"} :
          HandleOp(oom, garbage, wild)
    \/ \E msg_fails \in BOOLEAN : CreateReply(msg_fails, "stray")

SpecCur == Init /\ [][NextCur]_vars

(***************************************************************************)
(* The server fed fronts of every kind: well-formed ones and ones with a   *)
(* defect, over a connection that may fault between two messages.          *)
(***************************************************************************)
NextDec ==
    \/ \E h \in Hoids, ops \in OpSeqs(DecMenu) :
          RecvMsg(h, <<42, 0>>, ops)
    \/ \E h \in Hoids, ops \in DecSeqs, hoid \in Hoids, oom \in 0..2 :
          \E f \in Defective(WellFormed(h, <<42, 0>>, ops)) :
             RecvFront(f, oom, hoid)
    \/ \E oom \in 0..5, garbage \in Garbage, wild \in {"fault", "stray"} :
          HandleOp(oom, garbage, wild)
    \/ \E msg_fails \in BOOLEAN, wild \in {"fault", "stray", "stale"} :
          CreateReply(msg_fails, wild)
    \/ DropMsg
    \/ osds_fault

SpecDec == Init /\ [][NextDec]_vars

(***************************************************************************)
(* The iterator on its own: an iterator of any kind set on a small segment *)
(* array, on which advance and the two copies are called with any length.  *)
(***************************************************************************)
MaxSegs   == 2      \* segments of an array
MaxSegLen == 2      \* bytes of a segment
MaxBytes  == 3      \* bytes asked for in one call
MaxWrap   == 3      \* how far below zero a wrapped count is followed

RECURSIVE SumLen(_)
SumLen(segs) == IF segs = <<>> THEN 0 ELSE segs[1] + SumLen(Tail(segs))

SegArrays(lens) == UNION {[1..k -> lens] : k \in 1..MaxSegs}

\* the iterators as their constructors leave them: count is at most the
\* bytes of the segments; a page vector has no empty segment
IterInits ==
    {iov_iter_init(t, segs, c) :
        t \in {"iovec", "kvec"}, segs \in SegArrays(0..MaxSegLen),
        c \in 0..(MaxSegs * MaxSegLen)}
    \cup {iov_iter_init("bvec", segs, c) :
             segs \in SegArrays(1..MaxSegLen), c \in 0..(MaxSegs * MaxSegLen)}
    \cup {iov_iter_init("discard", <<>>, c) : c \in 0..(MaxSegs * MaxSegLen)}

InitIter ==
    /\ InitServer
    /\ noop_write = FALSE
    /\ iter \in {it \in IterInits :
                    it.type = "discard" \/ it.count <= SumLen(it.segs)}
    /\ call = NoCall
    /\ codec = NoCodec
    /\ life = Serving

server_vars == <<s_objects, noop_write, pc, req, in_cur, i, ret, reply, nops,
                 written, wfailed, wnooped, before, msg, con_open, life>>

\* r: the result of the function fn called with n (and ok) on iter
AfterCall(fn, n, ok, r) ==
    /\ iter' = r.it
    /\ call' = [fn |-> fn, n |-> n, ok |-> ok, errs |-> <<>>, ret |-> r.n,
                out |-> r.out, oob |-> r.oob, was |-> iter]
    /\ UNCHANGED <<server_vars, codec>>

IterAdvance(size) ==
    /\ iter.count > -MaxWrap
    /\ AfterCall("advance", size, size, iov_iter_advance(iter, size))

IterCopyFrom(bytes, ok) ==
    /\ iter.count > -MaxWrap
    /\ iter.type # "iovec" => ok = bytes
    /\ AfterCall("copy_from", bytes, ok, copy_iter(iter, bytes, ok))

IterCopyTo(bytes, ok) ==
    /\ iter.count > -MaxWrap
    /\ iter.type # "iovec" => ok = bytes
    /\ AfterCall("copy_to", bytes, ok, copy_iter(iter, bytes, ok))

\* the values a callback returns
CallbackErrs == {0, -ENOMEM, -EINVAL}

\* r: the result of iov_iter_for_each_range called with bytes and a callback
\* returning errs on iter; the call is made with bytes the segment array has
AfterRange(bytes, errs, r) ==
    /\ ~r.oob
    /\ call' = [fn |-> "for_each_range", n |-> bytes, ok |-> bytes,
                errs |-> errs, ret |-> r.ret, out |-> r.out, oob |-> r.oob,
                was |-> iter]
    /\ UNCHANGED <<iter, server_vars, codec>>

IterForEachRange(bytes, errs) ==
    /\ iter.count > -MaxWrap
    /\ AfterRange(bytes, errs, iov_iter_for_each_range(iter, bytes, errs))

NextIter ==
    \/ \E size \in 0..MaxBytes : IterAdvance(size)
    \/ \E bytes \in 0..MaxBytes, ok \in 0..MaxBytes : IterCopyFrom(bytes, ok)
    \/ \E bytes \in 0..MaxBytes, ok \in 0..MaxBytes : IterCopyTo(bytes, ok)
    \/ \E bytes \in 0..MaxBytes, errs \in [1..MaxSegs -> CallbackErrs] :
          IterForEachRange(bytes, errs)

SpecIter == InitIter /\ [][NextIter]_vars

(***************************************************************************)
(* The op codec on its own: an op with an opcode the codec knows is        *)
(* encoded into a raw op of a front, and the raw op is decoded into a      *)
(* zeroed element of req->ops.                                             *)
(***************************************************************************)
\* values of n bytes: 0, 1, the largest, and one with all bytes different
TestValue(n, kind) ==
    CASE kind = 0 -> Bytes(n, 0)
      [] kind = 1 -> [k \in 1..n |-> IF k = n THEN 1 ELSE 0]
      [] kind = 2 -> Bytes(n, 255)
      [] OTHER    -> [k \in 1..n |-> k]

CodecInputs ==
    {[op          |-> opc,
      flags       |-> TestValue(4, kf),
      indata_len  |-> TestValue(4, ki),
      outdata_len |-> TestValue(4, ko),
      m |-> [name \in DOMAIN UnionMembers |->
               TestValue(UnionMembers[name], km)]] :
        opc \in CodecOps, kf \in {0, 3}, ki \in {0, 1}, ko \in {0, 3},
        km \in 0..3}

InitCodec ==
    /\ InitServer
    /\ noop_write = FALSE
    /\ iter = NoIter
    /\ call = NoCall
    /\ life = Serving
    /\ codec \in {[NoCodec EXCEPT !.stage = "op", !.x = x,
                                   !.dst = WireMemory(v)] :
                     x \in CodecInputs, v \in {0, 85}}

\* e: what osd_req_encode_op made of codec.x in the front
AfterEncode(e) ==
    /\ codec' = [codec EXCEPT !.stage = "raw", !.raw = e.raw]
    /\ UNCHANGED <<server_vars, iter, call>>

CodecEncode ==
    /\ codec.stage = "op"
    /\ AfterEncode(osd_req_encode_op_wire(codec.x, codec.dst,
                                          EncodedMembers(codec.x.op)))

\* d: what osd_req_decode_op made of codec.raw
AfterDecodeOp(d) ==
    /\ codec' = [codec EXCEPT !.stage = "decoded", !.ret = d.ret, !.y = d.op]
    /\ UNCHANGED <<server_vars, iter, call>>

CodecDecode ==
    /\ codec.stage = "raw"
    /\ AfterDecodeOp(osd_req_decode_op_wire(codec.raw, ZeroReqOp,
                                            DecodedMembers(codec.raw.op)))

NextCodec == CodecEncode \/ CodecDecode

SpecCodec == InitCodec /\ [][NextCodec]_vars

(***************************************************************************)
(* The process: main, start_task, stop_task, ceph_start_osd_server and     *)
(* ceph_destroy_osd_server.  The monitor client and the messenger are the  *)
(* environment: each of their calls returns 0 or an error, a wait for the  *)
(* latest map takes up to its timeout and brings a map that has this OSD   *)
(* at its address or not, up or not.  The clock counts the milliseconds    *)
(* since the polling loop in progress noted its start.                     *)
(***************************************************************************)
ETIMEDOUT == 110
INT_MAX   == 2147483647
T_300ms   == 300
T_5s      == 5000

Digits == <<"0", "1", "2", "3", "4", "5", "6", "7", "8", "9">>
IsDigit(c) == \E d \in DOMAIN Digits : Digits[d] = c
DigitVal(c) == (CHOOSE d \in DOMAIN Digits : Digits[d] = c) - 1

\* strtol on the digits at the front of str: the value so far acc (big:
\* above INT_MAX, as a long or as LONG_MAX), digits seen n, the rest
RECURSIVE strtol_digits(_, _, _, _)
strtol_digits(str, acc, big, n) ==
    IF str # <<>> /\ IsDigit(str[1])
    THEN IF big \/ acc > (INT_MAX - DigitVal(str[1])) \div 10
         THEN strtol_digits(Tail(str), acc, TRUE, n + 1)
         ELSE strtol_digits(Tail(str), acc * 10 + DigitVal(str[1]), FALSE,
                            n + 1)
    ELSE [val |-> acc, big |-> big, n |-> n, end |-> str]

RECURSIVE SkipSpaces(_)
SkipSpaces(str) ==
    IF str # <<>> /\ str[1] = " " THEN SkipSpaces(Tail(str)) ELSE str

\* strtol(name, &end, 10): spaces, a sign, digits; without a digit the value
\* is 0 and end is name
strtol(name) ==
    LET body == SkipSpaces(name)
        neg  == body # <<>> /\ body[1] = "-"
        d    == strtol_digits(IF body # <<>> /\ body[1] \in {"-", "+"}
                              THEN Tail(body) ELSE body, 0, FALSE, 0)
    IN  IF d.n = 0 THEN [val |-> 0, big |-> FALSE, neg |-> FALSE, end |-> name]
        ELSE [val |-> d.val, big |-> d.big, neg |-> neg, end |-> d.end]

\* faulty variant of parse_osd_id: what follows the number is not looked at
parse_osd_id_lax(name) ==
    IF strtol(name).big \/ (strtol(name).neg /\ strtol(name).val # 0)
    THEN -EINVAL
    ELSE strtol(name).val

parse_osd_id(name) ==
    IF Len(strtol(name).end) # 0 THEN -EINVAL
    ELSE IF strtol(name).big \/ (strtol(name).neg /\ strtol(name).val # 0)
    THEN -EINVAL
    ELSE strtol(name).val

\* parse_options: args is what the command line holds: mon_addrs ("none",
\* "good", "bad"), whether there is a name and its characters, and param,
\* the result of ceph_parse_param on the other arguments.  The result is
\* the options.
parse_options(args) ==
    [ret      |-> IF args.mon_addrs = "bad" THEN -EINVAL ELSE args.param,
     num_mon  |-> IF args.mon_addrs = "good" THEN 1 ELSE 0,
     has_name |-> args.has_name,
     name     |-> args.name]

\* the status a process that returns ret from main exits with
ExitStatus(value) == value % 256

\* main up to the creation of the start task: -1 when it returns at once,
\* 0 when it goes on
main_checks(opt) ==
    IF opt.ret < 0 THEN -1
    ELSE IF opt.num_mon = 0 THEN -1
    ELSE IF ~opt.has_name THEN -1
    ELSE IF parse_osd_id(opt.name) < 0 THEN -1
    ELSE 0

\* destroy_objects: every block of every object is erased and freed, then
\* the object; the result is the table and the blocks freed
RECURSIVE destroy_objects(_, _)
destroy_objects(objs, freed) ==
    IF DOMAIN objs = {} THEN [objs |-> <<>>, freed |-> freed]
    ELSE LET h == CHOOSE h \in DOMAIN objs : TRUE
         IN  destroy_objects([k \in DOMAIN objs \ {h} |-> objs[k]],
                             freed + Len(objs[h].o_blocks))

life_rest == <<noop_write, pc, req, in_cur, i, ret, reply, nops, written,
               wfailed, wnooped, before, msg, con_open, iter, call, codec>>

Step(l, name) == [l EXCEPT !.steps = Append(@, name)]

\* main: the options are parsed and checked, the start task is created
Main(args) ==
    /\ life.pc = "main"
    /\ life' = IF main_checks(parse_options(args)) = 0
               THEN [life EXCEPT !.pc = "create", !.args = args,
                                 !.osd = parse_osd_id(args.name)]
               ELSE [life EXCEPT !.pc = "exited", !.args = args,
                                 !.exit = ExitStatus(
                                     main_checks(parse_options(args)))]
    /\ UNCHANGED <<s_objects, life_rest>>

\* start_task: ceph_create_osd_server.  When it fails the err label hands
\* the error pointer to ceph_destroy_osd_server, which reads through it.
CreateServer(r) ==
    /\ life.pc = "create"
    /\ life' = IF r # 0
               THEN [life EXCEPT !.pc = "bug", !.start_ret = r,
                                 !.caller = "start_task",
                                 !.destroys = @ + 1, !.on_error = TRUE]
               ELSE [life EXCEPT !.pc = "open_session", !.client = TRUE]
    /\ UNCHANGED <<s_objects, life_rest>>

\* faulty variant of StartErr: the messenger is left listening
StartErr_listening(l, r) ==
    [l EXCEPT !.pc = "mark_me_down", !.caller = "start_task",
              !.destroys = @ + 1,
              !.start_ret = r, !.ret = r]

\* the err label of ceph_start_osd_server, and start_task going to its own
\* err label with the error returned
StartErr(l, r) ==
    [Step(l, "stop_listen") EXCEPT !.pc = "mark_me_down",
                                   !.caller = "start_task",
                                   !.listening = FALSE,
                                   !.destroys = @ + 1,
                                   !.start_ret = r, !.ret = r]

OpenSession(r) ==
    /\ life.pc = "open_session"
    /\ life' = IF r # 0
               THEN [Step(life, "open_session") EXCEPT
                        !.pc = "mark_me_down", !.caller = "start_task",
                        !.destroys = @ + 1,
                        !.start_ret = r, !.ret = r]
               ELSE [Step(life, "open_session") EXCEPT !.pc = "start_listen"]
    /\ UNCHANGED <<s_objects, life_rest>>

StartListen(r) ==
    /\ life.pc = "start_listen"
    /\ life' = IF r # 0 THEN StartErr(Step(life, "start_listen"), r)
               ELSE [Step(life, "start_listen") EXCEPT !.pc = "crush_add",
                                                       !.listening = TRUE]
    /\ UNCHANGED <<s_objects, life_rest>>

CrushAdd(r) ==
    /\ life.pc = "crush_add"
    /\ life' = IF r # 0 THEN StartErr(Step(life, "crush_add"), r)
               ELSE [Step(life, "crush_add") EXCEPT !.pc = "boot"]
    /\ UNCHANGED <<s_objects, life_rest>>

Boot(r) ==
    /\ life.pc = "boot"
    /\ life' = IF r # 0 THEN StartErr(Step(life, "boot"), r)
               ELSE [Step(life, "boot") EXCEPT !.pc = "wait_up",
                                               !.clock = 0]
    /\ UNCHANGED <<s_objects, life_rest>>

\* what a wait for the latest map brought: "none" unless it returned 0
MapSeen(r, contains, up) ==
    IF r # 0 THEN "none"
    ELSE IF ~contains THEN "absent"
    ELSE IF up THEN "up" ELSE "down"

\* faulty variant of PollOver: the loop gives up after one second
PollOver_1s(clock) == clock >= 1000

\* time_after_eq(jiffies, started + _5s)
PollOver(clock) == clock >= T_5s

\* one round of the loop of ceph_start_osd_server: a wait of d ms that
\* returns r
WaitUp(r, d, contains, up) ==
    /\ life.pc = "wait_up"
    /\ ~PollOver(life.clock)
    /\ r = -ETIMEDOUT => d = T_300ms
    /\ life' = IF r # 0 /\ r # -ETIMEDOUT
               THEN StartErr([life EXCEPT !.clock = @ + d,
                                          !.map = "none"], r)
               ELSE IF MapSeen(r, contains, up) = "up"
               THEN [life EXCEPT !.clock = @ + d, !.map = "up",
                                 !.pc = "running", !.ret = 0]
               ELSE [life EXCEPT !.clock = @ + d,
                                 !.map = MapSeen(r, contains, up), !.ret = r]
    /\ UNCHANGED <<s_objects, life_rest>>

\* the loop ends with is_up false
StartTimeout ==
    /\ life.pc = "wait_up"
    /\ PollOver(life.clock)
    /\ life' = StartErr(life, -ETIMEDOUT)
    /\ UNCHANGED <<s_objects, life_rest>>

\* a request is served while the server runs: a WRITE that succeeds
Serve(hoid, ext) ==
    /\ life.pc = "running"
    /\ ~life.stop_in_progress
    /\ s_objects' = handle_osd_op_write(
                        s_objects, hoid, <<42, 0>>,
                        DecodedOp("WRITE", {}, ext[1], ext[2], ext[2]),
                        ceph_msg_data_cursor_init(BufFill(ext[2], 1)),
                        FALSE, 0, 0).objs
    /\ UNCHANGED <<life, life_rest>>

\* signal_event: SIGINT or SIGTERM; the stop task is created
Signal ==
    /\ life.pc \notin {"main", "exited", "bug"}
    /\ ~life.stop_in_progress
    /\ life' = [life EXCEPT !.stop_in_progress = TRUE]
    /\ UNCHANGED <<s_objects, life_rest>>

\* stop_task after kthread_stop returned 0: the start task had succeeded
StopTask ==
    /\ life.pc = "running"
    /\ life.stop_in_progress
    /\ life' = [life EXCEPT !.pc = "mark_me_down", !.caller = "stop_task",
                            !.destroys = @ + 1]
    /\ UNCHANGED <<s_objects, life_rest>>

\* ceph_stop_osd_server: the mark-me-down request
MarkMeDown(r) ==
    /\ life.pc = "mark_me_down"
    /\ life' = IF r # 0 /\ r # -ETIMEDOUT
               THEN [Step(life, "mark_me_down") EXCEPT
                        !.pc = "destroy_client", !.map = "none",
                        !.ret = r]
               ELSE [Step(life, "mark_me_down") EXCEPT
                        !.pc = "wait_down", !.clock = 0, !.map = "none",
                        !.ret = r]
    /\ UNCHANGED <<s_objects, life_rest>>

\* one round of the loop of ceph_stop_osd_server
WaitDown(r, d, contains, up) ==
    /\ life.pc = "wait_down"
    /\ ~PollOver(life.clock)
    /\ r = -ETIMEDOUT => d = T_300ms
    /\ life' = IF (r # 0 /\ r # -ETIMEDOUT)
                   \/ MapSeen(r, contains, up) = "down"
               THEN [life EXCEPT !.clock = @ + d,
                                 !.map = MapSeen(r, contains, up),
                                 !.pc = "destroy_client", !.ret = r]
               ELSE [life EXCEPT !.clock = @ + d,
                                 !.map = MapSeen(r, contains, up), !.ret = r]
    /\ UNCHANGED <<s_objects, life_rest>>

StopTimeout ==
    /\ life.pc = "wait_down"
    /\ PollOver(life.clock)
    /\ life' = [life EXCEPT !.pc = "destroy_client"]
    /\ UNCHANGED <<s_objects, life_rest>>

\* ceph_destroy_osd_server: ceph_destroy_client
DestroyClient ==
    /\ life.pc = "destroy_client"
    /\ life' = [Step(life, "destroy_client") EXCEPT
                   !.pc = "destroy_objects", !.client = FALSE,
                   !.listening = FALSE]
    /\ UNCHANGED <<s_objects, life_rest>>

\* ceph_destroy_osd_server: destroy_objects and kfree(osds); d is the table
\* and the blocks freed
AfterDestroy(d) ==
    /\ s_objects' = d.objs
    /\ life' = [Step(life, "destroy_objects") EXCEPT
                   !.pc = "destroyed", !.freed = d.freed]
    /\ UNCHANGED life_rest

DestroyObjects ==
    /\ life.pc = "destroy_objects"
    /\ AfterDestroy(destroy_objects(s_objects, 0))

\* the calls of destroy_loop once ceph_destroy_osd_server has returned: the
\* start task that failed calls it unless a stop task was started, the stop
\* task calls it always
LoopsDestroyed(l) ==
    (IF l.caller = "start_task" /\ ~l.stop_in_progress THEN 1 ELSE 0)
      + (IF l.stop_in_progress THEN 1 ELSE 0)

\* After ceph_destroy_osd_server: the start task that failed returns its
\* error and the loop is destroyed, by it or by the stop task; the stop task
\* destroys the loop.  With no task left main returns 0.
Exit ==
    /\ life.pc = "destroyed"
    /\ life' = [life EXCEPT !.pc = "exited", !.loop = FALSE,
                            !.loops = @ + LoopsDestroyed(life),
                            !.exit = ExitStatus(0)]
    /\ UNCHANGED <<s_objects, life_rest>>

\* the command lines; a name is what ceph_parse_param kept of name=...
Names ==
    {<<"0">>, <<"7">>, <<"1", "2">>, <<"-", "1">>, <<"1", "a">>,
     <<"x">>, <<" ", "3">>,
     <<"2", "1", "4", "7", "4", "8", "3", "6", "4", "7">>,
     <<"2", "1", "4", "7", "4", "8", "3", "6", "4", "8">>}

CommandLines ==
    [mon_addrs : {"none", "good", "bad"},
     has_name  : BOOLEAN,
     name      : Names,
     param     : {0, -EINVAL}]

Errors == {0, -ENOMEM}
WaitResults == {0, -ETIMEDOUT, -ENOMEM}

InitLife ==
    /\ InitServer
    /\ noop_write = FALSE
    /\ iter = NoIter
    /\ call = NoCall
    /\ codec = NoCodec
    /\ life = NoLife

NextLife ==
    \/ \E args \in CommandLines : Main(args)
    \/ \E r \in Errors : CreateServer(r)
    \/ \E r \in Errors : OpenSession(r)
    \/ \E r \in Errors : StartListen(r)
    \/ \E r \in Errors : CrushAdd(r)
    \/ \E r \in Errors : Boot(r)
    \/ \E r \in WaitResults, d \in {0, T_300ms}, contains, up \in BOOLEAN :
          WaitUp(r, d, contains, up)
    \/ StartTimeout
    \/ \E hoid \in Hoids, ext \in {<<0, 1>>, <<BS - 1, BS + 1>>} :
          Serve(hoid, ext)
    \/ Signal
    \/ StopTask
    \/ \E r \in WaitResults : MarkMeDown(r)
    \/ \E r \in WaitResults, d \in {0, T_300ms}, contains, up \in BOOLEAN :
          WaitDown(r, d, contains, up)
    \/ StopTimeout
    \/ DestroyClient
    \/ DestroyObjects
    \/ Exit

SpecLife == InitLife /\ [][NextLife]_vars

(***************************************************************************)
(* Properties.                                                             *)
(*                                                                         *)
(* An op handler has returned in the states where pc is "ops" or "reply"   *)
(* and i >= 1: req.ops[i] then is the op just run, with its results, and   *)
(* s_objects the store it left.                                            *)
(***************************************************************************)
Executed == pc \in {"ops", "reply"} /\ i >= 1
LastOp   == req.ops[i]
Swallowed(op) ==
    op.rval # 0 /\ "FAILOK" \in op.flags
    /\ op.rval # -EAGAIN /\ op.rval # -EINPROGRESS

\* the state req.ops[k] is left in by the decoder when the op never ran
Untouched(op) == op.rval = 0 /\ op.outdata_len = 0 /\ ~op.has_outdata

(***************************************************************************)
(* C1 - read after write.                                                  *)
(***************************************************************************)
\* a READ returned, on an object that every WRITE op so far succeeded on,
\* at an offset below the object's size
C1_ReadCase ==
    /\ Executed
    /\ LastOp.op = "READ"
    /\ req.hoid \in DOMAIN s_objects
    /\ req.hoid \notin wfailed
    /\ LastOp.offset < s_objects[req.hoid].o_size

\* rval 0 and exactly L = min(length, size - offset) bytes, byte k being the
\* byte last written at offset + k, or 0 where nothing was written
C1_ReadsBack ==
    LET L == Min(LastOp.length,
                 s_objects[req.hoid].o_size - LastOp.offset)
    IN  /\ LastOp.rval = 0
        /\ LastOp.has_outdata
        /\ LastOp.outdata_len = L
        /\ LastOp.outdata = BufSlice(written[req.hoid], LastOp.offset, L)

\* C1 as stated: after any sequence of WRITE ops on one object, a READ at
\* an offset below the size returns rval 0 and exactly
\* min(length, size - offset) bytes, each the byte last written there or 0.
C1_Original == C1_ReadCase => C1_ReadsBack

\* C1, amended: after any sequence of WRITE ops on one object none of which
\* was skipped under the NOOP_WRITE option, a READ at an offset below the
\* size either returns rval 0 and exactly min(length, size - offset) bytes,
\* each the byte last written there or 0 where no write covered it, or
\* fails to allocate its out buffer and returns -ENOMEM with no out-data.
C1_ReadAfterWrite ==
    (C1_ReadCase /\ req.hoid \notin wnooped)
        => \/ C1_ReadsBack
           \/ LastOp.rval = -ENOMEM /\ Untouched([LastOp EXCEPT !.rval = 0])

\* a READ over two written blocks and the never-allocated hole between them
C1_Witness ==
    /\ C1_ReadCase
    /\ req.hoid \notin wnooped
    /\ LastOp.rval = 0
    /\ Len(s_objects[req.hoid].o_blocks) = 2
    /\ Len(LastOp.outdata) = 3
    /\ LastOp.outdata[2][2] = 0
    /\ LastOp.outdata[2][1] >= OSDS_BLOCK_SIZE

(***************************************************************************)
(* C2 - FAILOK.                                                            *)
(***************************************************************************)
\* the op just run failed with FAILOK set: the loop goes on with ret 0
C2_Continues ==
    (Executed /\ Swallowed(LastOp))
        => /\ ret = 0
           /\ pc = IF i < req.num_ops THEN "ops" ELSE "reply"

\* the failed op keeps its own error code
C2_KeepsRval ==
    (Executed /\ "FAILOK" \in LastOp.flags)
        => /\ (LastOp.op \in {"READ", "STAT"}
                 /\ req.hoid \notin DOMAIN s_objects)
              => LastOp.rval = -ENOENT
           /\ LastOp.op = "ZERO" => LastOp.rval = -EOPNOTSUPP

\* the reply: result 0 when every op that failed was a FAILOK op
C2_Reply ==
    (reply.sent /\ \A k \in DOMAIN reply.ops :
                      reply.ops[k].rval # 0 => Swallowed(reply.ops[k]))
        => reply.result = 0

\* the reply carries the ops as the loop left them
C2_ReplyStep ==
    (pc = "reply" /\ reply'.sent) => reply'.ops = req.ops /\ reply'.result = ret

\* C2: an op with FAILOK that fails (not with -EAGAIN or -EINPROGRESS) does
\* not stop the loop: the next ops run in order, the op keeps its error in
\* its rval, and the reply's result is 0 when no op without FAILOK fails.
C2_FailokSwallow ==
    /\ [](C2_Continues /\ C2_KeepsRval /\ C2_Reply)
    /\ [][C2_ReplyStep]_vars

\* [READ of an absent object with FAILOK, WRITE]: rvals [-ENOENT, 0],
\* result 0, and the object holds the written byte
C2_Witness ==
    /\ reply.sent
    /\ reply.result = 0
    /\ Len(reply.ops) = 2
    /\ reply.ops[1].op = "READ"
    /\ "FAILOK" \in reply.ops[1].flags
    /\ reply.ops[1].rval = -ENOENT
    /\ reply.ops[2].op = "WRITE"
    /\ reply.ops[2].rval = 0
    /\ "x" \in DOMAIN s_objects
    /\ s_objects["x"].o_size = 1
    /\ s_objects["x"].o_blocks[1].b_page[1][2] # 0

(***************************************************************************)
(* C3 - short circuit.                                                     *)
(***************************************************************************)
\* an op failed without FAILOK: the loop is left with its error, the later
\* ops are as the decoder left them
C3_Stops ==
    Executed =>
        \A k \in 1..i :
            (req.ops[k].rval # 0 /\ ~Swallowed(req.ops[k]))
                => /\ k = i
                   /\ pc = "reply"
                   /\ ret = req.ops[k].rval
                   /\ \A j \in (k + 1)..req.num_ops : Untouched(req.ops[j])

\* once the loop is left no op runs: the store and the cursor stay
C3_NoLaterOp ==
    pc = "reply"
        => /\ s_objects' = s_objects
           /\ pc' \in {"reply", "idle"}
           /\ pc' = "reply" => in_cur' = in_cur

\* the reply: result is the failing op's rval, later ops rval 0, no out-data
C3_Reply ==
    reply.sent =>
        \A k \in DOMAIN reply.ops :
            (reply.ops[k].rval # 0 /\ ~Swallowed(reply.ops[k]))
                => /\ reply.result = reply.ops[k].rval
                   /\ \A j \in (k + 1)..Len(reply.ops) :
                          Untouched(reply.ops[j])

\* C3: when an op without FAILOK fails, no later op of the request runs
\* (store and input cursor are left alone), the reply's result is the
\* failing op's rval, and every later op is reported with rval 0 and
\* outdata_len 0.
C3_ShortCircuit ==
    /\ [](C3_Stops /\ C3_Reply)
    /\ [][C3_NoLaterOp]_vars

\* [READ of an absent object, WRITE]: result -ENOENT, the WRITE never ran
C3_Witness ==
    /\ reply.sent
    /\ reply.result = -ENOENT
    /\ Len(reply.ops) = 2
    /\ reply.ops[1].rval = -ENOENT
    /\ reply.ops[2].op = "WRITE"
    /\ reply.ops[2].length > 0
    /\ Untouched(reply.ops[2])
    /\ s_objects = <<>>

(***************************************************************************)
(* Steps of the op loop, as actions.                                       *)
(***************************************************************************)
\* the step runs op i + 1
OpRuns(opcodes) ==
    pc = "ops" /\ i' = i + 1 /\ req.ops[i + 1].op \in opcodes

\* the step runs op i + 1 and its handler returns
OpReturns(opcodes) == OpRuns(opcodes) /\ pc' \in {"ops", "reply"}

SizeOf(objs, h) == IF h \in DOMAIN objs THEN objs[h].o_size ELSE 0

\* the end of the last non-zero byte of a page (every payload byte sent is
\* non-zero, so this is where the data written into the page ends)
DataEnd(page) ==
    IF page = <<>> THEN 0
    ELSE IF page[Len(page)][2] = 0 THEN BufLen(page) - page[Len(page)][1]
    ELSE BufLen(page)

(***************************************************************************)
(* C4 - size dominance.                                                    *)
(***************************************************************************)
C4_SizeAfter ==
    LET op == req.ops[i + 1]
    IN  /\ req.hoid \in DOMAIN s_objects'
        /\ s_objects'[req.hoid].o_size
             = Max(SizeOf(s_objects, req.hoid), op.offset + op.length)

C4_NeverShrinks ==
    \A h \in DOMAIN s_objects :
        /\ h \in DOMAIN s_objects'
        /\ s_objects'[h].o_size >= s_objects[h].o_size

\* no byte stored lies at or beyond the size, once the WRITE op returned
C4_CoversData ==
    pc # "spin" =>
        \A h \in DOMAIN s_objects :
            \A k \in DOMAIN s_objects[h].o_blocks :
                LET blk == s_objects[h].o_blocks[k]
                IN  DataEnd(blk.b_page) > 0
                      => blk.b_off + DataEnd(blk.b_page) <= s_objects[h].o_size

C4_OriginalStep ==
    (OpReturns({"WRITE"}) /\ req.ops[i + 1].length > 0
       /\ req'.ops[i + 1].rval = 0)
        => C4_SizeAfter

\* C4 as stated: after every successful WRITE of length n > 0 at offset o
\* the size is max(previous size, o + n); the size covers every byte
\* written and never decreases.
C4_Original ==
    /\ [][C4_OriginalStep /\ C4_NeverShrinks]_vars
    /\ []C4_CoversData

C4_Step ==
    (OpReturns({"WRITE"}) /\ req.ops[i + 1].length > 0
       /\ req'.ops[i + 1].rval = 0
       /\ ~(noop_write /\ req.ops[i + 1].length >= NOOP_WRITE_MIN))
        => C4_SizeAfter

\* C4, amended: after every successful WRITE of length n > 0 at offset o
\* that was not skipped under the NOOP_WRITE option (option set and
\* n >= 4096: such a WRITE returns 0 and stores nothing), the size is
\* max(previous size, o + n); the size covers every byte stored by the WRITE
\* ops that returned and never decreases.
C4_SizeDominance ==
    /\ [][C4_Step /\ C4_NeverShrinks]_vars
    /\ []C4_CoversData

\* a WRITE below the end of a larger object has returned 0: the size stays
C4_Witness ==
    /\ Executed
    /\ LastOp.op = "WRITE"
    /\ LastOp.rval = 0
    /\ LastOp.length > 0
    /\ ~WriteSkipped(LastOp, noop_write)
    /\ req.hoid \in DOMAIN s_objects
    /\ s_objects[req.hoid].o_size > LastOp.offset + LastOp.length

(***************************************************************************)
(* C5 - block map.                                                         *)
(***************************************************************************)
\* C5: in every stored object every b_off is a multiple of the block size
\* and no two blocks have the same b_off, so the 64 KiB ranges of two
\* blocks never overlap.
C5_BlockMap ==
    \A h \in DOMAIN s_objects :
        LET b == s_objects[h].o_blocks
        IN  \A k \in DOMAIN b :
              /\ b[k].b_off % 65536 = 0
              /\ \A j \in DOMAIN b :
                    j # k => /\ b[j].b_off # b[k].b_off
                             /\ \/ b[j].b_off + 65536 <= b[k].b_off
                                \/ b[k].b_off + 65536 <= b[j].b_off

\* an object of three blocks, one of them reached by a write that began in
\* the block before it
C5_Witness ==
    \E h \in DOMAIN s_objects :
        /\ Len(s_objects[h].o_blocks) = 3
        /\ s_objects[h].o_blocks[2].b_off = OSDS_BLOCK_SIZE
        /\ DataEnd(s_objects[h].o_blocks[2].b_page) = OSDS_BLOCK_SIZE

(***************************************************************************)
(* C6 - read past EOF.                                                     *)
(***************************************************************************)
\* C6: a READ on an existing object at an offset >= its size returns rval 0
\* with outdata_len 0 and no out-data.
C6_ReadPastEof ==
    (Executed /\ LastOp.op = "READ"
       /\ req.hoid \in DOMAIN s_objects
       /\ LastOp.offset >= s_objects[req.hoid].o_size)
        => Untouched(LastOp)

\* a READ of one byte right at the end of a two-block object
C6_Witness ==
    /\ Executed
    /\ LastOp.op = "READ"
    /\ LastOp.length > 0
    /\ req.hoid \in DOMAIN s_objects
    /\ s_objects[req.hoid].o_size > 0
    /\ LastOp.offset = s_objects[req.hoid].o_size
    /\ Untouched(LastOp)

(***************************************************************************)
(* C7 - sparse write, then a read over the hole (checked under SpecScen).  *)
(***************************************************************************)
\* 100 bytes 'A' at offset 0, 100 bytes 'B' at offset 2 * BLOCK_SIZE
SparseContent ==
    << <<100, 65>>, <<2 * OSDS_BLOCK_SIZE - 100, 0>>, <<100, 66>> >>

\* exactly those two WRITE ops succeeded on the object, and a READ of
\* 200000 bytes at offset 0 has returned its data
C7_Case ==
    /\ Executed
    /\ LastOp.op = "READ"
    /\ LastOp.offset = 0
    /\ LastOp.length = 200000
    /\ LastOp.rval = 0
    /\ req.hoid \in DOMAIN s_objects
    /\ req.hoid \notin wfailed
    /\ written[req.hoid] = SparseContent

\* C7 as stated: the size is 131172 and the READ returns outdata_len 200000:
\* 100 'A', 130972 zero bytes, 100 'B', then 68828 zero bytes.
C7_Original ==
    C7_Case
        => /\ s_objects[req.hoid].o_size = 131172
           /\ LastOp.outdata_len = 200000
           /\ LastOp.outdata = BufCat(SparseContent, BufFill(68828, 0))

\* C7, amended: the size is 131172 and the READ returns outdata_len 131172
\* (the length is clamped to size - offset): 100 'A', 130972 zero bytes,
\* 100 'B', and nothing after them.
C7_SparseRead ==
    C7_Case
        => /\ s_objects[req.hoid].o_size = 131172
           /\ LastOp.has_outdata
           /\ LastOp.outdata_len = 131172
           /\ LastOp.outdata = SparseContent

\* the scenario has run: two blocks stored, the hole between them read
C7_Witness ==
    /\ C7_Case
    /\ Len(s_objects[req.hoid].o_blocks) = 2
    /\ s_objects[req.hoid].o_blocks[2].b_off = 2 * OSDS_BLOCK_SIZE
    /\ BufLen(LastOp.outdata) = 131172

(***************************************************************************)
(* C8 - STAT (checked under SpecScen).                                     *)
(***************************************************************************)
\* C8 as stated: a STAT on an existing object that returns 0 has
\* outdata_len 16 and an out buffer whose bytes 0..7 are the size
\* (little-endian u64) and whose bytes 8..15 are the mtime (u32 seconds,
\* u32 nanoseconds).
C8_StatReply ==
    (Executed /\ LastOp.op = "STAT"
       /\ req.hoid \in DOMAIN s_objects
       /\ LastOp.rval = 0)
        => /\ LastOp.outdata_len = 16
           /\ LastOp.has_outdata
           /\ LastOp.outdata =
                BufCat(LeBytes(s_objects[req.hoid].o_size, 8),
                       ceph_encode_timespec64(s_objects[req.hoid].o_mtime))

(***************************************************************************)
(* C9 - READ and STAT of an absent object.                                 *)
(***************************************************************************)
C9_Step ==
    (OpRuns({"READ", "STAT"}) /\ req.hoid \notin DOMAIN s_objects)
        => /\ pc' \in {"ops", "reply"}
           /\ req'.ops[i + 1].rval = -ENOENT
           /\ req'.ops[i + 1].outdata_len = 0
           /\ ~req'.ops[i + 1].has_outdata
           /\ s_objects' = s_objects

\* C9: a READ or STAT op on an identity no object is stored for returns
\* rval -ENOENT with outdata_len 0 and no out-data, and inserts no object.
C9_AbsentNotFound == [][C9_Step]_vars

\* a STAT of an object that is not among the stored ones returned -ENOENT
C9_Witness ==
    /\ Executed
    /\ LastOp.op = "STAT"
    /\ s_objects # <<>>
    /\ req.hoid \notin DOMAIN s_objects
    /\ LastOp.rval = -ENOENT
    /\ LastOp.outdata_len = 0

(***************************************************************************)
(* C10 - mtime.                                                            *)
(***************************************************************************)
C10_MtimeSet ==
    /\ req.hoid \in DOMAIN s_objects'
    /\ s_objects'[req.hoid].o_mtime = req.mtime

C10_ReadStatStep ==
    OpRuns({"READ", "STAT"})
        => \A h \in DOMAIN s_objects :
              /\ h \in DOMAIN s_objects'
              /\ s_objects'[h].o_mtime = s_objects[h].o_mtime

C10_OriginalStep ==
    (OpReturns({"WRITE"}) /\ req'.ops[i + 1].rval = 0) => C10_MtimeSet

\* C10 as stated: after a successful WRITE op the object's mtime is the
\* mtime of the request; READ and STAT ops leave the mtime unchanged.
C10_Original == [][C10_OriginalStep /\ C10_ReadStatStep]_vars

C10_WriteStep ==
    (OpReturns({"WRITE"}) /\ req'.ops[i + 1].rval = 0
       /\ ~WriteSkipped(req.ops[i + 1], noop_write))
        => C10_MtimeSet

\* C10, amended: after a successful WRITE op that stored data (length > 0
\* and not skipped under the NOOP_WRITE option) the object's mtime is the
\* mtime of the request; a WRITE of length 0 or a skipped one returns 0 and
\* leaves the object, if there is one, as it was; READ and STAT ops leave
\* the mtime unchanged.
C10_Mtime ==
    [][/\ C10_WriteStep
       /\ C10_ReadStatStep
       /\ (OpReturns({"WRITE"}) /\ WriteSkipped(req.ops[i + 1], noop_write))
            => (s_objects' = s_objects /\ req'.ops[i + 1].rval = 0)]_vars

\* a second WRITE, below the end of the object, has brought its own mtime
C10_Witness ==
    /\ Executed
    /\ LastOp.op = "WRITE"
    /\ LastOp.rval = 0
    /\ ~WriteSkipped(LastOp, noop_write)
    /\ req.hoid \in DOMAIN s_objects
    /\ req.mtime = <<7, 5>>
    /\ s_objects[req.hoid].o_mtime = <<7, 5>>
    /\ s_objects[req.hoid].o_size > LastOp.offset + LastOp.length
    /\ nops = 3

(***************************************************************************)
(* C11 - mtime monotonicity.                                               *)
(***************************************************************************)
\* a WRITE op returned 0 on an object that was there before it and that no
\* WRITE has failed on: its mtime before is the one a WRITE stored
C11_WriteOnStored ==
    /\ OpReturns({"WRITE"})
    /\ req'.ops[i + 1].rval = 0
    /\ req.hoid \in DOMAIN s_objects
    /\ req.hoid \notin wfailed

C11_NotEarlier ==
    ~TimeBefore(s_objects'[req.hoid].o_mtime, s_objects[req.hoid].o_mtime)

\* C11 as stated: for any sequence of successful WRITE requests to one
\* object, whatever mtime the requests carry, the object's mtime after each
\* write is not earlier than its mtime before that write.
C11_Original == [][C11_WriteOnStored => C11_NotEarlier]_vars

\* C11, amended: a successful WRITE that stored data leaves the object's
\* mtime equal to the mtime its request carries, whatever the mtime was
\* before; the mtime after the write is therefore not earlier than the mtime
\* before it when the request's mtime is not earlier than the object's, and
\* it is earlier (the mtime moves back) when the request's mtime is earlier.
\* A WRITE that stored nothing leaves the mtime as it was.
C11_MtimeFollowsRequest ==
    [][C11_WriteOnStored
         => /\ ~WriteSkipped(req.ops[i + 1], noop_write)
               => s_objects'[req.hoid].o_mtime = req.mtime
            /\ WriteSkipped(req.ops[i + 1], noop_write)
               => s_objects'[req.hoid].o_mtime = s_objects[req.hoid].o_mtime
            /\ ~TimeBefore(req.mtime, s_objects[req.hoid].o_mtime)
               => C11_NotEarlier
            /\ (TimeBefore(req.mtime, s_objects[req.hoid].o_mtime)
                  /\ ~WriteSkipped(req.ops[i + 1], noop_write))
               => ~C11_NotEarlier]_vars

\* an object written with mtime (42, 0) was written again by a request that
\* carries the earlier mtime (7, 5), and its mtime went back to (7, 5)
C11_Witness ==
    /\ Executed
    /\ LastOp.op = "WRITE"
    /\ LastOp.rval = 0
    /\ ~WriteSkipped(LastOp, noop_write)
    /\ req.hoid \notin wfailed
    /\ req.mtime = <<7, 5>>
    /\ req.hoid \in DOMAIN s_objects
    /\ s_objects[req.hoid].o_mtime = <<7, 5>>
    /\ req.hoid \in DOMAIN before
    /\ before[req.hoid].o_mtime = <<42, 0>>

(***************************************************************************)
(* C12 - a front that declares more than CEPH_OSD_MAX_OPS ops (checked     *)
(* under SpecDec).                                                         *)
(***************************************************************************)
\* the message being handled declares too many ops
C12_Case == msg.num_ops > CEPH_OSD_MAX_OPS

\* C12 as stated: an OSD_OP message whose front declares num_ops > 16 makes
\* the decoder return an error; handle_osd_ops then executes no op, leaves
\* the object store unchanged, sends no reply, and the connection remains
\* open.
C12_TooManyOps ==
    [][/\ (pc = "idle" /\ msg'.num_ops > CEPH_OSD_MAX_OPS)
            => (ret' # 0 /\ pc' = "drop")
       /\ C12_Case
            => /\ i' = 0
               /\ s_objects' = s_objects
               /\ ~reply'.sent
               /\ con_open']_vars

(***************************************************************************)
(* C13 - a front that declares more than 1024 snaps (checked under         *)
(* SpecDec).                                                               *)
(***************************************************************************)
C13_Case == msg.num_snaps > MAX_NUM_SNAPS

\* C13 as stated: an OSD_OP message whose front declares num_snaps > 1024
\* makes the decoder return an error, so that no op of that message is
\* executed, the object store is unchanged and no reply is sent.
C13_TooManySnaps ==
    [][/\ (pc = "idle" /\ msg'.num_snaps > MAX_NUM_SNAPS)
            => (ret' # 0 /\ pc' = "drop")
       /\ C13_Case
            => /\ i' = 0
               /\ s_objects' = s_objects
               /\ ~reply'.sent]_vars

(***************************************************************************)
(* C14 - codec errors drop the message (checked under SpecDec).            *)
(***************************************************************************)
\* The decoder comes to a defect of the front f: a versioned struct of too
\* low a version or too small a declared length, an op of an opcode the
\* codec does not know, or the end of the front before a field it reads.
\* (The fields after num_ops are read only when num_ops is within its
\* limit, those after num_snaps only when num_snaps is.)
C14_Defect(f) ==
    \/ f.spgid_v < 1 \/ f.spgid_short
    \/ f.reqid_v < 2 \/ f.reqid_short
    \/ f.cut # 0 /\ f.cut <= FieldNo("num_ops")
    \/ /\ f.num_ops <= CEPH_OSD_MAX_OPS
       /\ \/ \E k \in DOMAIN f.ops : f.ops[k].op \notin CodecOps
          \/ f.cut # 0 /\ f.cut <= FieldNo("num_snaps")
    \/ /\ f.num_ops <= CEPH_OSD_MAX_OPS
       /\ f.num_snaps <= MAX_NUM_SNAPS
       /\ f.cut # 0

\* the step of handle_osd_ops that decodes such a front
C14_DecodeStep ==
    (pc = "idle" /\ pc' # "idle" /\ C14_Defect(msg'))
        => /\ ret' # 0
           /\ pc' = "drop"
           /\ i' = 0
           /\ s_objects' = s_objects
           /\ ~reply'.sent
           /\ con_open' = con_open

\* the return that follows
C14_DropStep ==
    pc = "drop"
        => /\ pc' = "idle"
           /\ i' = 0
           /\ s_objects' = s_objects
           /\ ~reply'.sent
           /\ con_open' = con_open

\* C14: if decoding the front fails at any field because the front is too
\* short, because a versioned struct (spgid, reqid) has a version below its
\* minimum or a declared length smaller than what was read, or because an
\* op carries an opcode unknown to the codec, then no op of the message is
\* executed, the object store is unchanged, no reply is sent, and the
\* connection is not closed.
C14_CodecErrorDrops == [][C14_DecodeStep /\ C14_DropStep]_vars

\* a message with an op of an unknown opcode after a known one was dropped
\* by a server that holds an object
C14_Witness ==
    /\ pc = "drop"
    /\ C14_Defect(msg)
    /\ Len(msg.ops) = 2
    /\ msg.ops[1].op \in CodecOps
    /\ msg.ops[2].op \notin CodecOps
    /\ ret = -EINVAL
    /\ s_objects # <<>>
    /\ ~reply.sent
    /\ con_open

(***************************************************************************)
(* C15 - the NOOP_WRITE fast path.                                         *)
(***************************************************************************)
\* the len bytes an object holds from offset off on: the bytes of its
\* blocks, zeroes where it has no block
RECURSIVE StoredBytes(_, _, _)
StoredBytes(blocks, off, len) ==
    IF len <= 0 THEN <<>>
    ELSE LET b == lookup_object_block_by_off(blocks,
                                             ALIGN_DOWN(off, OSDS_BLOCK_SIZE))
             n == Min(len, OSDS_BLOCK_SIZE - OffInBlock(off))
         IN  BufCat(IF b = 0 THEN BufFill(n, 0)
                    ELSE BufSlice(blocks[b].b_page, OffInBlock(off), n),
                    StoredBytes(blocks, off + n, len - n))

\* under the option a WRITE of 4096 bytes or more returns 0 and leaves the
\* store (objects, blocks, sizes, mtimes) as it was
C15_SkipStep ==
    (OpRuns({"WRITE"}) /\ noop_write
       /\ req.ops[i + 1].length >= NOOP_WRITE_MIN)
        => /\ pc' \in {"ops", "reply"}
           /\ req'.ops[i + 1].rval = 0
           /\ s_objects' = s_objects

\* any other WRITE of length > 0 is applied: when it returns 0 the object
\* is there, holds the bytes the cursor gave at the extent, reaches the end
\* of the extent and bears the mtime of the request
C15_ApplyStep ==
    (OpReturns({"WRITE"})
       /\ req.ops[i + 1].length > 0
       /\ (~noop_write \/ req.ops[i + 1].length < NOOP_WRITE_MIN)
       /\ req'.ops[i + 1].rval = 0)
        => /\ req.hoid \in DOMAIN s_objects'
           /\ StoredBytes(s_objects'[req.hoid].o_blocks,
                          req.ops[i + 1].offset, req.ops[i + 1].length)
                = BufSlice(in_cur.data, in_cur.pos, req.ops[i + 1].length)
           /\ s_objects'[req.hoid].o_size
                >= req.ops[i + 1].offset + req.ops[i + 1].length
           /\ s_objects'[req.hoid].o_mtime = req.mtime

\* C15: when the noop_write option is set, a WRITE op with length >= 4096
\* returns rval 0 and has no effect on the object store; a WRITE with
\* 0 < length < 4096 is applied normally even when the option is set, and
\* when the option is not set every WRITE with length > 0 is applied.
C15_NoopWrite == [][C15_SkipStep /\ C15_ApplyStep]_vars

\* under the option, an object stored by a one-byte WRITE has been left as
\* it was by a WRITE of more than a block over it
C15_Witness ==
    /\ noop_write
    /\ Executed
    /\ LastOp.op = "WRITE"
    /\ LastOp.length >= NOOP_WRITE_MIN
    /\ LastOp.rval = 0
    /\ req.hoid \in DOMAIN s_objects
    /\ s_objects[req.hoid].o_size = 1
    /\ Len(s_objects[req.hoid].o_blocks) = 1
    /\ s_objects = before

(***************************************************************************)
(* C16 - writes are not transactional.                                     *)
(***************************************************************************)
\* a WRITE op returned -ENOMEM and the object is in the table (the
\* allocation that failed was not the one of the object itself)
C16_Failed ==
    /\ OpReturns({"WRITE"})
    /\ req'.ops[i + 1].rval = -ENOMEM
    /\ req.hoid \in DOMAIN s_objects'

\* the bytes that landed: those the write took from the cursor
C16_Landed == in_cur'.pos - in_cur.pos

C16_Step ==
    C16_Failed
        => /\ StoredBytes(s_objects'[req.hoid].o_blocks,
                          req.ops[i + 1].offset, C16_Landed)
                = BufSlice(in_cur.data, in_cur.pos, C16_Landed)
           /\ C16_Landed > 0
                => /\ s_objects'[req.hoid].o_size
                        = Max(SizeOf(s_objects, req.hoid),
                              req.ops[i + 1].offset + C16_Landed)
                   /\ s_objects'[req.hoid].o_mtime = req.mtime
           /\ (C16_Landed = 0 /\ req.hoid \in DOMAIN s_objects)
                => s_objects' = s_objects

C17_CreatedBySuccess ==
    \A h \in Hoids :
       (h \notin DOMAIN s_objects /\ h \in DOMAIN s_objects'
          /\ pc' \in {"ops", "reply"})
           => /\ OpReturns({"WRITE"})
              /\ h = req.hoid
              /\ req'.ops[i + 1].rval = 0

\* a WRITE that fails on an identity no object is stored for leaves none
C17_FailedLeavesNone ==
    (OpReturns({"WRITE"}) /\ req'.ops[i + 1].rval # 0
       /\ req.hoid \notin DOMAIN s_objects)
        => req.hoid \notin DOMAIN s_objects'

\* C17 as stated: an object exists in the object table only after a first
\* successful write to its identity; a WRITE that fails before any byte
\* lands (allocation failure on its first block) leaves no object for that
\* identity, so that a following READ or STAT still returns -ENOENT.
C17_LazyCreation == [][C17_CreatedBySuccess /\ C17_FailedLeavesNone]_vars


\* A call of fn has just been made on the iterator.
IterCalled(fn) == call'.fn = fn /\ <<iter, call>>' # <<iter, call>>

\* C18 as stated: whatever the backing kind, iov_iter_advance(n) takes
\* exactly n off the remaining count, and a copy takes off exactly the
\* bytes it copied.
C18_Original ==
    [][/\ IterCalled("advance") =>
            iter'.count = iter.count - call'.n /\ iter'.count >= 0
       /\ (IterCalled("copy_from") \/ IterCalled("copy_to")) =>
            iter'.count = iter.count - Len(call'.out)]_vars

\* C18 (I8, cursor conservation), as the code has it: on user, kernel and
\* page segments iov_iter_advance(n) takes min(n, count) off the remaining
\* count, never n beyond it; a copy takes off the number it returns, which on
\* those three kinds is the number of bytes it moved; on a Discard iterator a
\* copy takes off min(n, count) and moves nothing, and iov_iter_advance(n)
\* subtracts n in size_t arithmetic, a decrease by n only while n <= count.
C18_Conservation ==
    [][/\ IterCalled("advance") /\ iter.type # "discard" =>
            iter'.count = iter.count - Min(call'.n, iter.count)
       /\ IterCalled("advance") /\ iter.type = "discard" =>
            /\ iter'.count = iter.count - call'.n
            /\ (call'.n <= iter.count) = (iter'.count >= 0)
       /\ (IterCalled("copy_from") \/ IterCalled("copy_to")) =>
            /\ iter'.count = iter.count - call'.ret
            /\ iter.type # "discard" => call'.ret = Len(call'.out)
            /\ iter.type = "discard" =>
                 /\ call'.ret = ClampToCount(call'.n, iter.count)
                 /\ call'.out = <<>>]_vars

\* C18: a kernel iterator with two bytes left was advanced by three and is
\* at zero.
C18_Witness ==
    /\ call.fn = "advance"
    /\ call.was.type = "kvec"
    /\ call.was.count = 2
    /\ call.n = 3
    /\ iter.count = 0

\* C19 as stated: iov_iter_advance(n) skips min(n, count) bytes whatever the
\* kind of the iterator, Discard included, and the remaining count stays
\* between zero and the count the iterator was set up with.
C19_AdvanceClamped ==
    [][IterCalled("advance") /\ iter.count >= 0 =>
            /\ iter'.count = iter.count - Min(call'.n, iter.count)
            /\ iter'.count >= 0
            /\ iter'.count <= iter.count]_vars

\* The bytes of the backing memory before the position of the iterator.
IterPos(it) == SumLen(SubSeq(it.segs, 1, it.p - 1)) + it.iov_offset

\* C20 as stated: _copy_from_iter returns n on kernel and page segments, n
\* less the bytes that faulted on user segments, and the cursor moves by the
\* number returned.
C20_Original ==
    [][IterCalled("copy_from") =>
            /\ iter.type \in {"kvec", "bvec"} => call'.ret = call'.n
            /\ iter.type = "iovec" => call'.ret = Min(call'.n, call'.ok)
            /\ iter'.count = iter.count - call'.ret
            /\ IterPos(iter') = IterPos(iter) + call'.ret]_vars

\* C20, as the code has it: with m = min(n, count), _copy_from_iter returns
\* m on kernel and page segments; on user segments it returns the bytes
\* copied before the first fault, m if nothing faults; the bytes copied are
\* the returned number of bytes that follow the position of the cursor, in
\* order, and the cursor moves by that number: the count goes down by it and
\* the position up by it.
C20_CopyFromReturn ==
    [][IterCalled("copy_from") /\ iter.type # "discard" =>
            /\ iter.type \in {"kvec", "bvec"} =>
                 call'.ret = Min(call'.n, iter.count)
            /\ iter.type = "iovec" =>
                 call'.ret = Min(Min(call'.n, iter.count), call'.ok)
            /\ Len(call'.out) = call'.ret
            /\ \A k \in 1..Len(call'.out) :
                 /\ call'.out[k][2] < iter.segs[call'.out[k][1]]
                 /\ SumLen(SubSeq(iter.segs, 1, call'.out[k][1] - 1))
                      + call'.out[k][2] = IterPos(iter) + k - 1
            /\ iter'.count = iter.count - call'.ret
            /\ IterPos(iter') = IterPos(iter) + call'.ret
            /\ ~call'.oob]_vars

\* C20: a copy of three bytes from a user iterator with two bytes left
\* returned two, and one of three bytes from a user iterator with three left
\* faulted after one byte and returned one.
C20_Witness ==
    /\ call.fn = "copy_from"
    /\ call.was.type = "iovec"
    /\ call.n = 3
    /\ \/ call.was.count = 2 /\ call.ok = 3 /\ call.ret = 2
       \/ call.was.count = 3 /\ call.ok = 1 /\ call.ret = 1
    /\ iter.count = call.was.count - call.ret


\* C21: iov_iter_for_each_range over kernel or page segments hands the
\* callback consecutive non-empty chunks that cover the n bytes after the
\* position, and returns the last non-zero value the callback returned: an
\* error on one chunk is still returned when the later chunks return 0.
C21_LastNonZeroError ==
    [][IterCalled("for_each_range") /\ iter.type \in {"kvec", "bvec"}
         /\ call'.n > 0 =>
            /\ Len(call'.out) = call'.n
            /\ \A k \in 1..Len(call'.out) :
                 SumLen(SubSeq(iter.segs, 1, call'.out[k][1] - 1))
                   + call'.out[k][2] = IterPos(iter) + k - 1
            /\ \A c \in DOMAIN OutChunks(call'.out) :
                 OutChunks(call'.out)[c].len > 0
            /\ call'.ret = LastNonZero(call'.errs,
                                       Len(OutChunks(call'.out)))]_vars


\* C22 (reply data length): in every reply built by create_osd_op_reply the
\* data_len of the header is the sum of the outdata_len of the ops, and the
\* payload_len of each raw op is the outdata_len of its op.
C22_ReplyDataLen ==
    reply.sent =>
        /\ reply.data_len = SumOutdataLen(reply.ops)
        /\ \A k \in DOMAIN reply.ops :
              reply.raw_ops[k].payload_len = reply.ops[k].outdata_len


\* The members of an op that the encoder and the decoder both carry.
SharedMembers(opc) ==
    {name \in DOMAIN UnionMembers :
        ConvOf(EncodedMembers(opc), name) # 0
          /\ ConvOf(DecodedMembers(opc), name) # 0}

C23_Decoded == codec.stage = "decoded"

C23_SameMembers ==
    /\ codec.ret = 0
    /\ codec.y.op = codec.x.op
    /\ codec.y.flags = codec.x.flags
    /\ \A name \in SharedMembers(codec.x.op) :
          codec.y.m[name] = codec.x.m[name]

\* C23 as stated: decoding the raw op the encoder made of an op x gives x
\* back on the opcode, the flags, the payload length (in the member of the
\* op that holds one, indata_len or outdata_len) and the members of the
\* opcode.
C23_Original ==
    C23_Decoded =>
        /\ C23_SameMembers
        /\ \/ codec.y.indata_len = codec.x.indata_len
           \/ codec.y.outdata_len = codec.x.outdata_len

\* C23 (I7, codec round trip), as the code has it: decoding the raw op the
\* encoder made of an op x with an opcode the codec knows succeeds and gives
\* the opcode, the flags and the opcode-specific members of x (extent
\* offset, length, truncate_size, truncate_seq; class_len, method_len and
\* indata_len of a call; watch cookie, op, gen; notify cookie; the two
\* allocation hints; xattr name_len, value_len, cmp_op, cmp_mode; copy_from
\* snapid, src_version, flags, src_fadvise_flags); the payload length on
\* the wire is x.outdata_len and comes back as indata_len of the decoded
\* op, whose outdata_len and other members stay as they were (zero).
C23_RoundTrip ==
    C23_Decoded =>
        /\ C23_SameMembers
        /\ codec.y.indata_len = codec.x.outdata_len
        /\ codec.y.outdata_len = ZeroReqOp.outdata_len
        /\ \A name \in DOMAIN UnionMembers \ SharedMembers(codec.x.op) :
              codec.y.m[name] = ZeroReqOp.m[name]
        /\ codec.raw.payload_len = Reverse(codec.x.outdata_len)

\* C23: an extent op with in-data and out-data of different lengths and
\* members whose bytes all differ went through the codec into a front that
\* was not zero.
C23_Witness ==
    /\ C23_Decoded
    /\ codec.x.op = "WRITE"
    /\ codec.x.m.offset = <<1, 2, 3, 4, 5, 6, 7, 8>>
    /\ codec.x.m.truncate_seq = <<1, 2, 3, 4>>
    /\ codec.x.outdata_len = <<1, 2, 3, 4>>
    /\ codec.x.indata_len = <<0, 0, 0, 1>>
    /\ codec.dst = WireMemory(85)
    /\ codec.raw.m.offset = <<8, 7, 6, 5, 4, 3, 2, 1>>
    /\ codec.y.m.offset = codec.x.m.offset
    /\ codec.y.indata_len = <<1, 2, 3, 4>>


StartOrder == <<"open_session", "start_listen", "crush_add", "boot">>
IsPrefix(a, b) == Len(a) <= Len(b) /\ a = SubSeq(b, 1, Len(a))
LastStep(l) == IF l.steps = <<>> THEN "none" ELSE l.steps[Len(l.steps)]
InStart(l) ==
    l.pc \in {"open_session", "start_listen", "crush_add", "boot", "wait_up"}

\* the calls of ceph_start_osd_server are made in order, the polling starts
\* after the boot, and the server runs only with a map that showed it up
C24_Order ==
    /\ IsPrefix(SelectSeq(life.steps, LAMBDA n : n \in
                            {StartOrder[k] : k \in DOMAIN StartOrder}),
                StartOrder)
    /\ life.pc = "wait_up" => life.steps = StartOrder
    /\ life.pc = "running" =>
          /\ life.steps = StartOrder
          /\ life.map = "up"
          /\ life.listening
          /\ life.start_ret = 0

\* how ceph_start_osd_server returns
C24_Return ==
    /\ (life.pc # "running" /\ life'.pc = "running") =>
          /\ life.pc = "wait_up"
          /\ life.clock < T_5s
          /\ life'.map = "up"
    /\ (InStart(life) /\ life'.pc = "mark_me_down") =>
          /\ life'.start_ret # 0
          /\ ~life'.listening
          /\ IF life.pc = "open_session"
             THEN life'.steps = <<"open_session">>
             ELSE LastStep(life') = "stop_listen"
          /\ (life.pc = "wait_up" /\ life'.start_ret = -ETIMEDOUT) =>
                life.clock >= T_5s /\ life.map # "up"
    /\ (life.pc = "wait_up" /\ life'.clock # life.clock) =>
          /\ life.clock < T_5s
          /\ life'.clock <= life.clock + T_300ms

\* C24: ceph_start_osd_server opens the session, starts listening, adds the
\* OSD to CRUSH and boots it, in this order, then polls the latest map in
\* waits of at most 300 ms that start within 5 s; it returns 0 only with a
\* map that has the OSD at its address and UP; when a step after the opening
\* of the session fails, or no wait within the 5 s brought such a map
\* (-ETIMEDOUT), it stops listening and returns the error; when the opening
\* of the session fails it returns the error and has not started listening.
C24_Start == []C24_Order /\ [][C24_Return]_vars

\* C24: the start went through its four calls and timed out after 5 s; the
\* messenger has been stopped.
C24_Witness ==
    /\ life.pc = "mark_me_down"
    /\ life.caller = "start_task"
    /\ life.start_ret = -ETIMEDOUT
    /\ life.clock >= T_5s
    /\ life.steps = StartOrder \o <<"stop_listen">>
    /\ ~life.listening

\* A name that is a non-negative integer an int can hold: digits, after
\* spaces if any.
ValidOsdName(name) ==
    /\ SkipSpaces(name) # <<>>
    /\ \A k \in DOMAIN SkipSpaces(name) : IsDigit(SkipSpaces(name)[k])
    /\ ~strtol_digits(SkipSpaces(name), 0, FALSE, 0).big

ParseFailure(args) ==
    \/ args.mon_addrs # "good"
    \/ args.param # 0
    \/ ~args.has_name
    \/ ~ValidOsdName(args.name)

\* C25 (exit codes): the process exits with 0 on a clean shutdown, and with
\* a code that is not 0 when the parsing of the options fails (no mon_addrs,
\* no name, a name that is not a non-negative integer) and when the start of
\* the server fails with a timeout.
C25_ExitCodes ==
    /\ (life.pc # "main" /\ ParseFailure(life.args)) =>
          life.pc = "exited" /\ life.exit # 0
    /\ (life.pc = "exited" /\ life.start_ret = -ETIMEDOUT) => life.exit # 0
    /\ (life.pc = "exited" /\ ~ParseFailure(life.args)
          /\ life.start_ret = 0) => life.exit = 0

RECURSIVE TotalBlocks(_)
TotalBlocks(objs) ==
    IF DOMAIN objs = {} THEN 0
    ELSE LET h == CHOOSE h \in DOMAIN objs : TRUE
         IN  Len(objs[h].o_blocks)
               + TotalBlocks([k \in DOMAIN objs \ {h} |-> objs[k]])

InDestroy(l) ==
    l.pc \in {"mark_me_down", "wait_down", "destroy_client",
              "destroy_objects"}

\* the calls of ceph_destroy_osd_server are made in order
C26_Order ==
    /\ life.pc \in {"wait_down", "destroy_client"} =>
          /\ LastStep(life) = "mark_me_down"
          /\ life.client
    /\ life.pc = "destroy_objects" =>
          /\ SubSeq(life.steps, Len(life.steps) - 1, Len(life.steps))
               = <<"mark_me_down", "destroy_client">>
          /\ ~life.client
    /\ life.pc \in {"destroyed", "exited"} /\ life.caller # "none" =>
          /\ SubSeq(life.steps, Len(life.steps) - 2, Len(life.steps))
               = <<"mark_me_down", "destroy_client", "destroy_objects">>
          /\ s_objects = <<>>

C26_Steps ==
    /\ (life.pc = "wait_down" /\ life'.clock # life.clock) =>
          /\ life.clock < T_5s
          /\ life'.clock <= life.clock + T_300ms
    /\ (life.pc = "wait_down" /\ life'.pc = "wait_down") =>
          life'.map # "down"
    /\ (life.pc = "wait_down" /\ life'.pc = "destroy_client"
          /\ life'.map # "down" /\ life'.ret \in {0, -ETIMEDOUT}) =>
          life.clock >= T_5s
    /\ (InDestroy(life) /\ life.pc # "destroy_objects") =>
          s_objects' = s_objects
    /\ (life.pc = "destroy_objects" /\ life'.pc = "destroyed") =>
          /\ s_objects' = <<>>
          /\ life'.freed = TotalBlocks(s_objects)

\* C26 (shutdown order): ceph_destroy_osd_server first sends mark-me-down,
\* then polls the map in waits of at most 300 ms that start within 5 s and
\* stops at the first map that has the OSD and shows it not UP, and only then
\* destroys the client and frees every block and every object: until then
\* the table is untouched, and when it returns the table is empty and all
\* its blocks were freed, whatever mark-me-down returned and whether or not
\* the OSD was seen down.
C26_Shutdown == []C26_Order /\ [][C26_Steps]_vars

\* C26: mark-me-down failed, no map showed the OSD down, and the three
\* blocks of the two objects of the store were freed.
C26_Witness ==
    /\ life.pc = "destroyed"
    /\ life.caller = "stop_task"
    /\ life.ret = -ENOMEM
    /\ life.map = "none"
    /\ life.freed = 3
    /\ s_objects = <<>>


(***************************************************************************)
(* C27 - the opcodes the codec decodes and handle_osd_op has no case for.  *)
(***************************************************************************)
UnsupportedOps ==
    {"WRITEFULL", "ZERO", "TRUNCATE", "CALL", "WATCH", "NOTIFY",
     "NOTIFY_ACK", "LIST_WATCHERS", "SETALLOCHINT", "SETXATTR", "CMPXATTR",
     "CREATE", "DELETE", "COPY_FROM2"}

\* what the loop makes of the error of an op with these flags
FailokRet(flags) == IF "FAILOK" \in flags THEN 0 ELSE -EOPNOTSUPP

\* in every state the loop can run an op in, each of the fourteen opcodes,
\* with or without FAILOK and with or without payload, returns -EOPNOTSUPP
\* and leaves the store and the cursor as they are
C27_EveryOpcode ==
    pc = "ops" =>
        \A opc \in UnsupportedOps, fl \in {{}, {"FAILOK"}}, n \in {0, 1} :
            LET r == handle_osd_op(s_objects, req.hoid, req.mtime,
                                   DecodedOp(opc, fl, 0, 1, n), in_cur,
                                   noop_write, 0, 0, "stray")
            IN  /\ r.end = "ret"
                /\ r.ret = -EOPNOTSUPP
                /\ r.op.rval = -EOPNOTSUPP
                /\ r.objs = s_objects
                /\ r.cur = in_cur
                /\ LoopRet(r.ret, r.op) = FailokRet(fl)

\* the loop runs such an op
C27_Step ==
    (pc = "ops" /\ i' = i + 1 /\ req.ops[i + 1].op \in UnsupportedOps) =>
        /\ req'.ops[i + 1] = [req.ops[i + 1] EXCEPT !.rval = -EOPNOTSUPP]
        /\ s_objects' = s_objects
        /\ in_cur' = in_cur
        /\ ret' = FailokRet(req.ops[i + 1].flags)
        /\ pc' = IF ret' # 0 \/ i + 1 = req.num_ops THEN "reply" ELSE "ops"

WritesSucceeded == \A k \in 1..i : req.ops[k].op = "WRITE" => req.ops[k].rval = 0

\* none of the WRITE ops run so far was skipped under NOOP_WRITE
NoneSkipped ==
    \A k \in 1..i :
        req.ops[k].op = "WRITE" =>
            ~(noop_write /\ req.ops[k].length >= NOOP_WRITE_MIN)

\* the cursor stands after the payloads of the WRITE ops run so far
CursorAfterWrites == in_cur.pos = PayloadPos(req.ops, i + 1)

\* the WRITE op the step ran stored the next length bytes of the data and
\* moved the cursor past them
ConsumedNext ==
    LET op == req.ops[i + 1]
    IN  /\ req.hoid \in DOMAIN s_objects'
        /\ StoredBytes(s_objects'[req.hoid].o_blocks, op.offset, op.length)
             = BufSlice(in_cur.data, in_cur.pos, op.length)
        /\ in_cur' = [in_cur EXCEPT !.pos = @ + op.length]

\* READ and STAT never change the cursor
C28_ReadStatStep == OpRuns({"READ", "STAT"}) => in_cur' = in_cur

C28_OriginalStep ==
    (OpReturns({"WRITE"}) /\ req.ops[i + 1].length > 0
       /\ req'.ops[i + 1].rval = 0) => ConsumedNext

\* C28 as stated: READ and STAT ops never change the cursor, and the WRITE
\* ops of a request consume consecutive bytes of the message data: the
\* first stores the bytes [0, a), the second the bytes [a, a + b), also with
\* READ or STAT ops between them.
C28_Original ==
    /\ []((Executed /\ WritesSucceeded) => CursorAfterWrites)
    /\ [][C28_ReadStatStep /\ C28_OriginalStep]_vars

C28_WriteStep ==
    (OpReturns({"WRITE"}) /\ req.ops[i + 1].length > 0
       /\ req'.ops[i + 1].rval = 0
       /\ ~(noop_write /\ req.ops[i + 1].length >= NOOP_WRITE_MIN))
        => ConsumedNext

\* a WRITE skipped under NOOP_WRITE leaves the cursor where it was
C28_SkipStep ==
    (OpRuns({"WRITE"}) /\ noop_write
       /\ req.ops[i + 1].length >= NOOP_WRITE_MIN) => in_cur' = in_cur

\* C28, amended: READ and STAT ops never change the cursor, and the WRITE
\* ops of a request that return 0 and are not skipped under the NOOP_WRITE
\* option consume consecutive bytes of the message data: the first stores
\* the bytes [0, a), the second the bytes [a, a + b), also with READ or STAT
\* ops between them.  A WRITE skipped under NOOP_WRITE (option set, length
\* >= 4096) consumes nothing, so the WRITE after it stores the bytes that
\* were sent for the skipped one.
C28_CursorDiscipline ==
    /\ []((Executed /\ WritesSucceeded /\ NoneSkipped) => CursorAfterWrites)
    /\ [][C28_ReadStatStep /\ C28_WriteStep /\ C28_SkipStep]_vars

\* [WRITE of 1 byte, READ, WRITE of BLOCK_SIZE + 1 bytes]: the second WRITE
\* stored the bytes [1, BLOCK_SIZE + 2) of the data, sent with its own fill
C28_Witness ==
    /\ Executed
    /\ i = 3
    /\ req.ops[1].op = "WRITE" /\ req.ops[1].length = 1
    /\ req.ops[2].op = "READ" /\ req.ops[2].has_outdata
    /\ req.ops[3].op = "WRITE" /\ req.ops[3].length = BS + 1
    /\ \A k \in 1..3 : req.ops[k].rval = 0
    /\ in_cur.pos = BS + 2
    /\ StoredBytes(s_objects[req.hoid].o_blocks, 0, 1)
         = BufSlice(in_cur.data, 0, 1)
    /\ StoredBytes(s_objects[req.hoid].o_blocks, BS - 1, BS + 1)
         = BufSlice(in_cur.data, 1, BS + 1)
    /\ BufSlice(in_cur.data, 0, 1) # BufSlice(in_cur.data, 1, 1)


(***************************************************************************)
(* C29 - the blocks a WRITE allocates.                                     *)
(***************************************************************************)
BlocksOf(objs, h) == IF h \in DOMAIN objs THEN objs[h].o_blocks ELSE <<>>
BlockKeys(blocks) == {blocks[k].b_off : k \in DOMAIN blocks}

\* the keys of the blocks the range of n > 0 bytes at o lies in
RangeKeys(o, n) ==
    {ALIGN_DOWN(o, OSDS_BLOCK_SIZE) + j * OSDS_BLOCK_SIZE :
        j \in 0..((ALIGN_DOWN(o + n - 1, OSDS_BLOCK_SIZE)
                     - ALIGN_DOWN(o, OSDS_BLOCK_SIZE)) \div OSDS_BLOCK_SIZE)}

\* where the blocks end
BlocksEnd(blocks) ==
    IF blocks = <<>> THEN 0
    ELSE OSDS_BLOCK_SIZE
           + CHOOSE m \in BlockKeys(blocks) :
                 \A k \in BlockKeys(blocks) : k <= m

\* the step allocated the blocks of the range that were missing and no
\* other; outside the range every byte of the object is what it was, zero
\* where there was no block; the other objects are as they were
AllocatedExactly ==
    LET op   == req.ops[i + 1]
        old  == BlocksOf(s_objects, req.hoid)
        new  == BlocksOf(s_objects', req.hoid)
        stop == op.offset + op.length
    IN  /\ req.hoid \in DOMAIN s_objects'
        /\ BlockKeys(new) = BlockKeys(old) \cup RangeKeys(op.offset, op.length)
        /\ Len(new) = Cardinality(BlockKeys(new))
        /\ \A k \in DOMAIN new : BufLen(new[k].b_page) = OSDS_BLOCK_SIZE
        /\ StoredBytes(new, 0, op.offset) = StoredBytes(old, 0, op.offset)
        /\ StoredBytes(new, stop, BlocksEnd(new) - stop)
             = StoredBytes(old, stop, BlocksEnd(new) - stop)
        /\ \A h \in DOMAIN s_objects :
              h # req.hoid => h \in DOMAIN s_objects'
                                /\ s_objects'[h] = s_objects[h]

C29_OriginalStep ==
    (OpReturns({"WRITE"}) /\ req.ops[i + 1].length > 0
       /\ req'.ops[i + 1].rval = 0) => AllocatedExactly

\* C29 as stated: a successful WRITE of n > 0 bytes at o allocates exactly
\* the blocks ALIGN_DOWN(o), ..., ALIGN_DOWN(o + n - 1) that did not exist,
\* changes no byte of an existing block outside [o, o + n), and the bytes
\* of a new block outside the range are zero.
C29_Original == [][C29_OriginalStep]_vars

C29_Step ==
    (OpReturns({"WRITE"}) /\ req.ops[i + 1].length > 0
       /\ req'.ops[i + 1].rval = 0
       /\ ~(noop_write /\ req.ops[i + 1].length >= NOOP_WRITE_MIN))
        => AllocatedExactly

\* C29, amended: a successful WRITE of n > 0 bytes at o that is not skipped
\* under the NOOP_WRITE option allocates exactly the blocks ALIGN_DOWN(o),
\* ..., ALIGN_DOWN(o + n - 1) that did not exist, changes no byte of an
\* existing block outside [o, o + n), and the bytes of a new block outside
\* the range are zero; a WRITE skipped under the option allocates nothing.
C29_ExactAllocation == [][C29_Step /\ C15_SkipStep]_vars

\* BLOCK_SIZE + 1 bytes written at BLOCK_SIZE - 1 into an object that did
\* not exist: the blocks at 0 and BLOCK_SIZE, size 2 * BLOCK_SIZE, the first
\* block zero up to its last byte, the payload in that byte and in the
\* second block
C29_Witness ==
    /\ Executed
    /\ LastOp.op = "WRITE"
    /\ LastOp.offset = BS - 1 /\ LastOp.length = BS + 1
    /\ LastOp.rval = 0
    /\ req.hoid \notin DOMAIN before
    /\ req.hoid \in DOMAIN s_objects
    /\ BlockKeys(s_objects[req.hoid].o_blocks) = {0, BS}
    /\ Len(s_objects[req.hoid].o_blocks) = 2
    /\ s_objects[req.hoid].o_size = 2 * BS
    /\ StoredBytes(s_objects[req.hoid].o_blocks, 0, BS - 1)
         = BufFill(BS - 1, 0)
    /\ StoredBytes(s_objects[req.hoid].o_blocks, BS - 1, BS + 1)
         = BufSlice(in_cur.data, in_cur.pos - (BS + 1), BS + 1)


(***************************************************************************)
(* C30 - termination of the handling of a request.                         *)
(***************************************************************************)
\* C30: the handling of a decoded request always reaches the creation of
\* the reply: no WRITE op stays in its copy loop, also when its length is
\* larger than what is left in the input cursor.  (pc = "spin" is the copy
\* loop of handle_osd_op_write repeating an iteration that copies nothing
\* and changes nothing: from there no reply is ever created.)
C30_Terminates == pc # "spin"


(***************************************************************************)
(* C31 - the data items of a reply.                                        *)
(***************************************************************************)
\* C31: the out-data buffers added to a reply (one per op with outdata set)
\* are never more than the n_items the reply was allocated with (the ops
\* with outdata_len > 0); every op with outdata set has outdata_len > 0,
\* also a READ of length 0 on an object that is not empty.
C31_ItemsFit ==
    /\ reply.sent => reply.n_items >= Len(reply.items)
    /\ \A k \in DOMAIN req.ops :
          req.ops[k].has_outdata => req.ops[k].outdata_len > 0

(***************************************************************************)
(* C32 - a WRITE and the bytes sent for it.                                *)
(***************************************************************************)
C32_Step ==
    (OpReturns({"WRITE"}) /\ req'.ops[i + 1].rval = 0)
        => in_cur'.pos = in_cur.pos + req.ops[i + 1].length

\* C32: every WRITE op that returns rval 0 with extent.length n has moved
\* the input cursor on by exactly n bytes, also when the noop_write option
\* turned it into a no-op.
C32_WriteAdvances == [][C32_Step]_vars


(***************************************************************************)
(* C33 - the start task, the signal and the stop task.                     *)
(***************************************************************************)
\* C33: however the start task and the arrival of SIGINT or SIGTERM
\* interleave, ceph_destroy_osd_server is called at most once and never on
\* an error value of a failed ceph_create_osd_server, and destroy_loop is
\* called exactly once: never twice, and once when the tasks are done.
C33_Lifecycle ==
    /\ life.destroys <= 1
    /\ ~life.on_error
    /\ life.loops <= 1
    /\ (life.pc = "exited" /\ life.exit = 0) => life.loops = 1

\* what holds of the lifecycle on every path: one call at most, one
\* destroy_loop at the end, and the call on an error value only after a
\* failed create
C33_Holds ==
    /\ life.destroys <= 1
    /\ life.loops <= 1
    /\ (life.pc = "exited" /\ life.exit = 0) => life.loops = 1
    /\ life.on_error => life.pc = "bug" /\ life.steps = <<>>


(***************************************************************************)
(* C34 - READ and STAT leave the store alone.                              *)
(***************************************************************************)
C34_ReadStatStep == OpRuns({"READ", "STAT"}) => s_objects' = s_objects

C34_OnlyWrite == s_objects' # s_objects => OpRuns({"WRITE"})

\* C34: a READ or a STAT op, whether it succeeds or fails, leaves the table
\* of objects, the size and the blocks of every object and the bytes of
\* every block as they were; only WRITE ops change the store.
C34_ReadOnly == [][C34_ReadStatStep /\ C34_OnlyWrite]_vars

\* the part that holds whatever the stray store of STAT hits: READ ops and
\* ops without a handler leave the store alone, and a STAT changes neither
\* the table nor a size nor the set of blocks of an object
C34_ReadStep ==
    /\ OpRuns({"READ"} \cup UnsupportedOps) => s_objects' = s_objects
    /\ OpRuns({"STAT"}) =>
          /\ DOMAIN s_objects' = DOMAIN s_objects
          /\ \A h \in DOMAIN s_objects :
                /\ s_objects'[h].o_size = s_objects[h].o_size
                /\ s_objects'[h].o_mtime = s_objects[h].o_mtime
                /\ BlockKeys(s_objects'[h].o_blocks)
                     = BlockKeys(s_objects[h].o_blocks)

C34_ReadLeavesStore == [][C34_ReadStep]_vars

=============================================================================
